---- MODULE Spec2Model ----
(***************************************************************************)
(* QuestionBank: the recursive batch-fetch controller (RecursiveFetcher)   *)
(* of services/recursiveFetcher.js, driven by the completion capability    *)
(* (fetchQuestions) and the ingestion store (saveQuestions).               *)
(*                                                                         *)
(* One controller instance.  JavaScript runs the code between two awaits   *)
(* atomically, so every action below is the code from one await to the     *)
(* next.  start and stop requests of other callers may arrive at any       *)
(* await.  What the completion capability and the store hand back to the   *)
(* controller is an input of the step that resumes the controller.         *)
(***************************************************************************)
EXTENDS Integers, FiniteSets, Sequences, TLC

\* ---------------------------------------------------------------- bounds
\* largest target count of a session that is run to its end
MaxTarget == 6
\* a fetch may return up to this many candidates more than were requested
MaxExtra == 1
\* fetch calls issued by one session before the exploration stops following it
MaxFetchCalls == 4
\* the transport errors that one call of saveQuestions may meet
MaxTransportErrors == 1
\* the longest text given to calculateSimilarity on its own
MaxTextLen == 3
\* the ceiling at which the totals of stats are held in the fair session
MaxCounted == 2

\* ------------------------------------------------------- program constants
\* appConfig.recursiveFetching
BatchSizes == {5, 10, 15, 20}
DefaultBatchSize == 10
MaxConsecutiveFailures == 3
MaxTotalQuestions == 1000
\* encoding of an omitted batchSize argument (the parameter's default, null)
NullBatchSize == -1

\* ----------------------------------------------------------------- inputs
\* target counts a caller passes: zero, the largest target
\* that is run to its end, and one above the ceiling
TargetCounts == {0, MaxTarget, MaxTotalQuestions + 1}
\* batch sizes a caller passes: omitted, zero, an allowed one, a number that is
\* not an allowed size
BatchSizeArgs == {NullBatchSize, 0, 5, 7}

Min(a, b) == IF a < b THEN a ELSE b

VARIABLES
    isRunning,      \* this.isRunning
    shouldStop,     \* this.shouldStop
    stats,          \* this.stats
    pc,             \* the await at which the session is suspended
    targetCount,    \* argument of the running session
    batchSize,      \* argument of the running session, after defaulting
    sessionSaved,   \* local of fetchUntilTarget
    batchToFetch,   \* local of the loop body: size of the request in flight
    questions,      \* number of candidates handed to the save in flight
    thrown,         \* an error is propagating out of fetchUntilTarget
    returned,       \* how the promise of the last accepted start settled
    lastCall,       \* history: the call or completion the last step handled
    fetchCalls,     \* history: fetchQuestions calls issued by the session
    sumSaved,       \* history: sum of result.saved over the returned saves
    stopRequested,  \* history: stop() was called while the session ran
    fetchAfterStop, \* history: a fetch was issued after such a stop()
    allFull,        \* history: every batch returned what was requested and
                    \*          all of it was saved
    dupStreak,      \* history: trailing batches that returned candidates of
                    \*          which none was saved
    emptyStreak,    \* history: trailing iterations that returned nothing or
                    \*          raised an exception
    db,             \* the questions collection: the persisted records, in
                    \* the order of their insertion
    saveCall,       \* the saveQuestions call of each caller of the store
    request,        \* a fetchQuestions call and its HTTP attempts
    similarity,     \* a calculateSimilarity call: its arguments and result
    single,         \* a run of handleSingleFetch
    files,          \* the backups directory: the content of each file
    mongoConnection,\* the MongoConnection singleton and the state of the
                    \* connection of mongoose that it opens and closes
    factoryCall,    \* the call of the factory saveQuestions of each caller
    duplicateCheck  \* a question given to checkDuplicates and to the store

vars == <<isRunning, shouldStop, stats, pc, targetCount, batchSize,
          sessionSaved, batchToFetch, questions, thrown, returned, lastCall,
          fetchCalls, sumSaved, stopRequested, fetchAfterStop, allFull,
          dupStreak, emptyStreak, db, saveCall, request, similarity,
          single, files, mongoConnection, factoryCall, duplicateCheck>>

\* the store: the collection and the save calls working on it
storeVars == <<db, saveCall>>

\* the controller instance, its session and what is recorded about it
controllerVars ==
    <<isRunning, shouldStop, stats, pc, targetCount, batchSize, sessionSaved,
      batchToFetch, questions, thrown, returned, lastCall, fetchCalls,
      sumSaved, stopRequested, fetchAfterStop, allFull, dupStreak,
      emptyStreak>>

\* the completion call, the similarity call and the single-batch run
apiVars == <<request>>
similarityVars == <<similarity>>
backupVars == <<single, files>>
\* the process-wide connection and the factory calls that use it
connectionVars == <<mongoConnection, factoryCall>>
toolVars == <<duplicateCheck>>

\* what the steps of the controller, and those of the store, leave alone
besidesController ==
    <<storeVars, apiVars, similarityVars, backupVars, connectionVars,
      toolVars>>
besidesStore ==
    <<controllerVars, apiVars, similarityVars, backupVars, connectionVars,
      toolVars>>
besidesApi ==
    <<controllerVars, storeVars, similarityVars, backupVars, connectionVars,
      toolVars>>
besidesSimilarity ==
    <<controllerVars, storeVars, apiVars, backupVars, connectionVars,
      toolVars>>
besidesBackup ==
    <<controllerVars, storeVars, apiVars, similarityVars, connectionVars,
      toolVars>>
besidesConnection ==
    <<controllerVars, storeVars, apiVars, similarityVars, backupVars,
      toolVars>>
besidesTool ==
    <<controllerVars, storeVars, apiVars, similarityVars, backupVars,
      connectionVars>>

ctrl == <<isRunning, shouldStop, stats>>
session == <<targetCount, batchSize, sessionSaved>>
history == <<fetchCalls, sumSaved, stopRequested, fetchAfterStop, allFull,
             dupStreak, emptyStreak>>

\* ------------------------------------------------------------ the stats
\* this.stats as the constructor and every accepted start set it.  startTime
\* is kept as set / not set; lastProgressUpdate is never written after that.
NewStats(started) ==
    [totalFetched |-> 0, totalSaved |-> 0, totalDuplicates |-> 0,
     consecutiveFailures |-> 0, batchesCompleted |-> 0, startTime |-> started]

NoReturn ==
    [kind |-> "none", success |-> FALSE, finalSaved |-> 0, targetCount |-> 0,
     stats |-> NewStats(FALSE)]

\* a step other than a start request
Event(op) == [op |-> op, verdict |-> "none", target |-> 0, batch |-> 0]

\* getFinalStats measuring success on the wrong counter
GetFinalStatsFetched(st, target) ==
    [kind |-> "stats", success |-> st.totalFetched >= target,
     finalSaved |-> st.totalSaved, targetCount |-> target, stats |-> st]

\* getFinalStats(targetCount)
GetFinalStats(st, target) ==
    [kind |-> "stats", success |-> st.totalSaved >= target,
     finalSaved |-> st.totalSaved, targetCount |-> target, stats |-> st]

\* `if (!batchSize) batchSize = this.config.defaultBatchSize`
EffectiveBatchSize(b) ==
    IF b = NullBatchSize \/ b = 0 THEN DefaultBatchSize ELSE b

\* the checks without the single-flight guard
StartVerdictNoSingleFlight(running, t, b) ==
    IF t > MaxTotalQuestions THEN "exceedsMaximum"
    ELSE IF EffectiveBatchSize(b) \notin BatchSizes THEN "invalidBatchSize"
    ELSE "accepted"

\* the checks without the ceiling on the target count
StartVerdictNoCeiling(running, t, b) ==
    IF running THEN "alreadyRunning"
    ELSE IF EffectiveBatchSize(b) \notin BatchSizes THEN "invalidBatchSize"
    ELSE "accepted"

\* the three checks of startRecursiveFetching, in the order of the code
StartVerdict(running, t, b) ==
    IF running THEN "alreadyRunning"
    ELSE IF t > MaxTotalQuestions THEN "exceedsMaximum"
    ELSE IF EffectiveBatchSize(b) \notin BatchSizes THEN "invalidBatchSize"
    ELSE "accepted"

\* a loop condition that does not look at what is left to save
LoopConditionIgnoresTarget(stop, saved, target) == ~stop

\* a loop condition that does not look at the stop flag
LoopConditionIgnoresStop(stop, saved, target) == saved < target

\* the condition of the while loop
LoopCondition(stop, saved, target) == ~stop /\ saved < target

\* a request size that ignores what is left to save
BatchToFetchNoMin(batch, target, saved) == batch

\* `Math.min(batchSize, targetCount - sessionSaved)`
BatchToFetch(batch, target, saved) == Min(batch, target - saved)

\* stats.consecutiveFailures++
FailureTick(st) ==
    [st EXCEPT !.consecutiveFailures = @ + 1]

\* a budget test that is off by one
BudgetExhaustedStrict(st) == st.consecutiveFailures > MaxConsecutiveFailures

\* `this.stats.consecutiveFailures >= this.config.maxConsecutiveFailures`
BudgetExhausted(st) == st.consecutiveFailures >= MaxConsecutiveFailures

\* the updates with the fetched count added to totalSaved
AccumulateFetchedAsSaved(st, n, saved, duplicates) ==
    [st EXCEPT !.totalFetched = @ + n,
               !.totalSaved = @ + n,
               !.totalDuplicates = @ + duplicates,
               !.batchesCompleted = @ + 1,
               !.consecutiveFailures = 0]

\* the four updates of stats after saveQuestions returned
Accumulate(st, n, saved, duplicates) ==
    [st EXCEPT !.totalFetched = @ + n,
               !.totalSaved = @ + saved,
               !.totalDuplicates = @ + duplicates,
               !.batchesCompleted = @ + 1,
               !.consecutiveFailures = 0]

\* `if (result.saved === 0) this.stats.consecutiveFailures++`
NothingSavedTick(st, saved) ==
    IF saved = 0 THEN FailureTick(st) ELSE st

\* a loop body that lets the exception escape
CatchErrorRethrow(st) ==
    [stats |-> st, rethrown |-> TRUE]

\* the catch block of the loop body: what becomes of an exception raised by
\* fetchQuestions or saveQuestions
CatchError(st) ==
    [stats |-> FailureTick(st), rethrown |-> FALSE]

\* ------------------------------------------------------------- the steps
\* The loop head: issue the next fetch, or leave the loop and return from
\* fetchUntilTarget.
LoopHead(stop, saved, target, batch, calls, afterStop, stopped) ==
    IF LoopCondition(stop, saved, target)
    THEN /\ pc' = "fetching"
         /\ batchToFetch' = BatchToFetch(batch, target, saved)
         /\ fetchCalls' = calls + 1
         /\ fetchAfterStop' = (afterStop \/ stopped)
    ELSE /\ pc' = "exit"
         /\ batchToFetch' = 0
         /\ fetchCalls' = calls
         /\ fetchAfterStop' = afterStop

\* `break`, then the end of fetchUntilTarget
LeaveLoop ==
    /\ pc' = "exit"
    /\ batchToFetch' = 0
    /\ UNCHANGED <<fetchCalls, fetchAfterStop>>

\* an accepted start that leaves the stop flag as the last session left it
StartFlagsKeepStop(stop) == [isRunning |-> TRUE, shouldStop |-> stop]

\* `this.isRunning = true; this.shouldStop = false` of an accepted start
StartFlags(stop) == [isRunning |-> TRUE, shouldStop |-> FALSE]

\* startRecursiveFetching(topic, targetCount, ..., batchSize, ...) up to its
\* first await
Start(t, b) ==
    LET verdict == StartVerdict(isRunning, t, b) IN
    /\ lastCall' = [op |-> "start", verdict |-> verdict, target |-> t, batch |-> b]
    /\ IF verdict = "accepted"
       THEN /\ isRunning' = StartFlags(shouldStop).isRunning
            /\ shouldStop' = StartFlags(shouldStop).shouldStop
            /\ stats' = NewStats(TRUE)
            /\ targetCount' = t
            /\ batchSize' = EffectiveBatchSize(b)
            /\ sessionSaved' = 0
            /\ questions' = 0
            /\ thrown' = FALSE
            /\ returned' = NoReturn
            /\ sumSaved' = 0
            /\ stopRequested' = FALSE
            /\ allFull' = TRUE
            /\ dupStreak' = 0
            /\ emptyStreak' = 0
            /\ LoopHead(FALSE, 0, t, EffectiveBatchSize(b), 0, FALSE, FALSE)
       ELSE UNCHANGED <<ctrl, pc, session, batchToFetch, questions, thrown,
                        returned, history>>
    /\ UNCHANGED besidesController

\* stop()
Stop ==
    /\ shouldStop' = (IF isRunning THEN TRUE ELSE shouldStop)
    /\ stopRequested' = (stopRequested \/ isRunning)
    /\ lastCall' = Event("stop")
    /\ UNCHANGED <<isRunning, stats, pc, session, batchToFetch, questions,
                   thrown, returned, fetchCalls, sumSaved, fetchAfterStop,
                   allFull, dupStreak, emptyStreak>>
    /\ UNCHANGED besidesController

\* what saveQuestions(topic, questions) hands back for n candidates when it
\* returns: every candidate is either written or counted as a duplicate
SaveResults(n) ==
    {[saved |-> s, duplicates |-> n - s] : s \in 0..n}

\* fetchQuestions resolves with n candidates (null or [] is n = 0)
FetchReturns(n) ==
    /\ pc = "fetching"
    /\ lastCall' = Event("fetchReturned")
    /\ IF n = 0
       THEN /\ stats' = FailureTick(stats)
            /\ questions' = 0
            /\ emptyStreak' = emptyStreak + 1
            /\ dupStreak' = 0
            /\ allFull' = FALSE
            /\ IF BudgetExhausted(stats')
               THEN LeaveLoop
               ELSE /\ pc' = "retryDelay"
                    /\ batchToFetch' = 0
                    /\ UNCHANGED <<fetchCalls, fetchAfterStop>>
       ELSE /\ pc' = "saving"
            /\ questions' = n
            /\ allFull' = (allFull /\ n = batchToFetch)
            /\ UNCHANGED <<stats, batchToFetch, fetchCalls, fetchAfterStop,
                           dupStreak, emptyStreak>>
    /\ UNCHANGED <<isRunning, shouldStop, session, thrown, returned, sumSaved,
                   stopRequested>>
    /\ UNCHANGED besidesController

\* an exception of fetchQuestions or saveQuestions reaches the catch block
LoopError(op) ==
    LET c == CatchError(stats) IN
    /\ lastCall' = Event(op)
    /\ stats' = c.stats
    /\ questions' = 0
    /\ thrown' = c.rethrown
    /\ emptyStreak' = emptyStreak + 1
    /\ dupStreak' = 0
    /\ allFull' = FALSE
    /\ IF c.rethrown \/ BudgetExhausted(c.stats)
       THEN LeaveLoop
       ELSE /\ pc' = "retryDelay"
            /\ batchToFetch' = 0
            /\ UNCHANGED <<fetchCalls, fetchAfterStop>>
    /\ UNCHANGED <<isRunning, shouldStop, session, returned, sumSaved,
                   stopRequested>>
    /\ UNCHANGED besidesController

\* fetchQuestions rejects
FetchThrows ==
    /\ pc = "fetching"
    /\ LoopError("fetchThrew")

\* saveQuestions rejects
SaveThrows ==
    /\ pc = "saving"
    /\ LoopError("saveThrew")

\* saveQuestions resolves with r
SaveReturns(r) ==
    LET st == NothingSavedTick(
                  Accumulate(stats, questions, r.saved, r.duplicates), r.saved)
        saved == sessionSaved + r.saved
    IN
    /\ pc = "saving"
    /\ lastCall' = Event("saveReturned")
    /\ stats' = st
    /\ sessionSaved' = saved
    /\ questions' = 0
    /\ sumSaved' = sumSaved + r.saved
    /\ dupStreak' = (IF r.saved = 0 THEN dupStreak + 1 ELSE 0)
    /\ emptyStreak' = 0
    /\ allFull' = (allFull /\ r.saved = questions)
    /\ IF r.saved = 0 /\ BudgetExhausted(st)
       THEN LeaveLoop
       ELSE IF LoopCondition(shouldStop, saved, targetCount)
       THEN /\ pc' = "batchDelay"
            /\ batchToFetch' = 0
            /\ UNCHANGED <<fetchCalls, fetchAfterStop>>
       ELSE LeaveLoop
    /\ UNCHANGED <<isRunning, shouldStop, targetCount, batchSize, thrown,
                   returned, stopRequested>>
    /\ UNCHANGED besidesController

\* a delay resolves and the loop condition is evaluated again
DelayDone(which) ==
    /\ pc = which
    /\ LoopCondition(shouldStop, sessionSaved, targetCount)
           => fetchCalls < MaxFetchCalls
    /\ lastCall' = Event("delayDone")
    /\ LoopHead(shouldStop, sessionSaved, targetCount, batchSize, fetchCalls,
                fetchAfterStop, stopRequested)
    /\ UNCHANGED <<ctrl, session, questions, thrown, returned, sumSaved,
                   stopRequested, allFull, dupStreak, emptyStreak>>
    /\ UNCHANGED besidesController

\* this.delay(this.config.retryDelay) resolves
RetryDelayDone == DelayDone("retryDelay")

\* this.delay(this.config.delayBetweenBatches) resolves
BatchDelayDone == DelayDone("batchDelay")

\* fetchUntilTarget has settled: return getFinalStats(targetCount) or rethrow,
\* and the finally block
Settle ==
    /\ pc = "exit"
    /\ lastCall' = Event("settle")
    /\ returned' = (IF thrown THEN [NoReturn EXCEPT !.kind = "error"]
                    ELSE GetFinalStats(stats, targetCount))
    /\ isRunning' = FALSE
    /\ thrown' = FALSE
    /\ pc' = "idle"
    /\ UNCHANGED <<shouldStop, stats, session, batchToFetch, questions,
                   history>>
    /\ UNCHANGED besidesController

\* ---------------------------------------------------------------- texts
\* A string is the sequence of its characters.
UpperCaseLetters == <<"A", "B", "C", "D">>
LowerCaseLetters == <<"a", "b", "c", "d">>

\* one character of String.prototype.toLowerCase
ToLowerChar(c) ==
    IF \E k \in DOMAIN UpperCaseLetters : UpperCaseLetters[k] = c
    THEN LowerCaseLetters[CHOOSE k \in DOMAIN UpperCaseLetters :
                              UpperCaseLetters[k] = c]
    ELSE c

\* String.prototype.toLowerCase
ToLowerCase(str) == [k \in DOMAIN str |-> ToLowerChar(str[k])]

\* String.prototype.trim
RECURSIVE TrimStart(_)
TrimStart(str) ==
    IF str # <<>> /\ Head(str) = " " THEN TrimStart(Tail(str)) ELSE str

RECURSIVE TrimEnd(_)
TrimEnd(str) ==
    IF str # <<>> /\ str[Len(str)] = " "
    THEN TrimEnd(SubSeq(str, 1, Len(str) - 1))
    ELSE str

Trim(str) == TrimEnd(TrimStart(str))

Min3(a, b, c) == Min(a, Min(b, c))

\* One row of the matrix of levenshteinDistance: row i (a character of str2)
\* from the row above it, cell by cell.  A row is the sequence of its cells,
\* cell j at position j + 1.
RECURSIVE LevenshteinRow(_, _, _, _, _)
LevenshteinRow(str1, str2, i, above, row) ==
    LET j == Len(row) IN
    IF j > Len(str1) THEN row
    ELSE LevenshteinRow(str1, str2, i, above,
             Append(row,
                    IF str2[i] = str1[j]
                    THEN above[j]
                    ELSE Min3(above[j] + 1, row[j] + 1, above[j + 1] + 1)))

\* The matrix of levenshteinDistance, row by row: row i at position i + 1.
RECURSIVE LevenshteinMatrix(_, _, _)
LevenshteinMatrix(str1, str2, matrix) ==
    LET i == Len(matrix) IN
    IF i > Len(str2) THEN matrix
    ELSE LevenshteinMatrix(str1, str2,
             Append(matrix,
                    LevenshteinRow(str1, str2, i, matrix[i], <<i>>)))

\* levenshteinDistance(str1, str2): matrix[str2.length][str1.length]
LevenshteinDistance(str1, str2) ==
    LevenshteinMatrix(str1, str2,
                      <<[j \in 1..(Len(str1) + 1) |-> j - 1]>>)
        [Len(str2) + 1][Len(str1) + 1]

\* calculateSimilarity(str1, str2), as the fraction num / den
CalculateSimilarityFirstIsLonger(str1, str2) ==
    IF Len(str1) = 0
    THEN [num |-> 1, den |-> 1]
    ELSE [num |-> Len(str1) - LevenshteinDistance(str1, str2),
          den |-> Len(str1)]

CalculateSimilarity(str1, str2) ==
    LET longer == IF Len(str1) > Len(str2) THEN str1 ELSE str2
        shorter == IF Len(str1) > Len(str2) THEN str2 ELSE str1
    IN IF Len(longer) = 0
       THEN [num |-> 1, den |-> 1]
       ELSE [num |-> Len(longer) - LevenshteinDistance(longer, shorter),
             den |-> Len(longer)]

\* the threshold of the fuzzy check, in hundredths
SimilarityThreshold == 85

\* `similarity > 0.85`
ExceedsThresholdInclusive(sim) ==
    sim.num * 100 >= SimilarityThreshold * sim.den

ExceedsThreshold(sim) == sim.num * 100 > SimilarityThreshold * sim.den

\* generateQuestionHash(question): sha256 is taken to be injective, so the
\* digest is represented by the content that is digested
GenerateQuestionHash(q) ==
    Trim(ToLowerCase(q.question)) \o <<"_">> \o Trim(ToLowerCase(q.answer))

\* ------------------------------------------------------------ candidates
\* a question text of 20 characters, and texts at edit distance 2, 3 and 4
\* from it (similarity 0.9, 0.85 and 0.8)
BaseText ==
    <<"a", "b", "c", "d", "e", "f", "g", "h", "i", "j",
      "k", "l", "m", "n", "o", "p", "q", "r", "s", "t">>
Near90Text == SubSeq(BaseText, 1, 18) \o <<"z", "z">>
Near85Text == SubSeq(BaseText, 1, 17) \o <<"y", "y", "y">>
Near80Text == SubSeq(BaseText, 1, 16) \o <<"x", "x", "x", "x">>
\* the text that differs from BaseText in the case of four letters only
CaseText == <<"A", "B", "C", "D">> \o SubSeq(BaseText, 5, 20)
\* the same text with white space around it
PaddedText == <<" ">> \o BaseText \o <<" ">>
\* an unrelated text
OtherText == <<"u", "v", "w">>

FirstAnswer == <<"o", "n", "e">>
SecondAnswer == <<"t", "w", "o">>
NoAnswer == <<>>

\* a candidate that does not carry a hash yet
NoHash == <<>>
Candidate(text, answer) ==
    [question |-> text, answer |-> answer, hash |-> NoHash]

\* generateHash(question.question + question.topic), the hash that the
\* migration and the file store give a question: the digest is represented by
\* the content that is digested
LegacyHash(text, topic) == text \o <<topic>>

\* a candidate read from a migrated file or a backup: it carries the hash it
\* was given there
Migrated(text, answer, topic) ==
    [question |-> text, answer |-> answer, hash |-> LegacyHash(text, topic)]

\* the batches handed to saveQuestions
Batches ==
    { <<Candidate(BaseText, FirstAnswer)>>,
      <<Candidate(BaseText, SecondAnswer)>>,
      <<Candidate(PaddedText, FirstAnswer)>>,
      <<Candidate(Near90Text, SecondAnswer)>>,
      <<Candidate(Near85Text, SecondAnswer)>>,
      <<Candidate(Near80Text, SecondAnswer)>>,
      <<Candidate(CaseText, SecondAnswer)>>,
      <<Candidate(OtherText, NoAnswer)>>,
      <<Candidate(BaseText, FirstAnswer), Candidate(BaseText, FirstAnswer)>>,
      <<Candidate(BaseText, FirstAnswer), Candidate(OtherText, FirstAnswer)>>,
      <<Candidate(BaseText, FirstAnswer), Candidate(Near90Text, SecondAnswer)>>,
      <<Migrated(OtherText, FirstAnswer, "react")>> }

Topics == {"javascript", "react"}

\* ------------------------------------------------------- the response text
\* A text is a sequence of symbols.  A symbol is one character, or a word: a
\* run of one or more characters of the class \w.  Adjacent words form one
\* run.
WhiteSpace == {" ", "\n", "\r", "\t"}
Punctuation == {"[", "]", "{", "}", ",", ":", "\"", "'", "\\", "."}
IsWord(c) == c \notin WhiteSpace \cup Punctuation

\* the first position from p on whose symbol is not white space (\s*)
SkipSpace(str, p) ==
    CHOOSE q \in p..(Len(str) + 1) :
        /\ q = Len(str) + 1 \/ str[q] \notin WhiteSpace
        /\ \A r \in p..(q - 1) : str[r] \in WhiteSpace

\* the first position from p on whose symbol is not a word (\w*)
SkipWord(str, p) ==
    CHOOSE q \in p..(Len(str) + 1) :
        /\ q = Len(str) + 1 \/ ~IsWord(str[q])
        /\ \A r \in p..(q - 1) : IsWord(str[r])

NoMatch == [len |-> 0, out |-> <<>>]

\* /,\s*}/ replaced by '}'
CommaBeforeBrace(str, p) ==
    LET q == SkipSpace(str, p + 1) IN
    IF str[p] = "," /\ q <= Len(str) /\ str[q] = "}"
    THEN [len |-> q - p + 1, out |-> <<"}">>]
    ELSE NoMatch

\* /,\s*]/ replaced by ']'
CommaBeforeBracket(str, p) ==
    LET q == SkipSpace(str, p + 1) IN
    IF str[p] = "," /\ q <= Len(str) /\ str[q] = "]"
    THEN [len |-> q - p + 1, out |-> <<"]">>]
    ELSE NoMatch

\* /([{,]\s*)(\w+):/ replaced by '$1"$2":'
UnquotedKey(str, p) ==
    LET q == SkipSpace(str, p + 1)
        r == SkipWord(str, q)
    IN IF str[p] \in {"{", ","} /\ r > q /\ r <= Len(str) /\ str[r] = ":"
       THEN [len |-> r - p + 1,
             out |-> SubSeq(str, p, q - 1) \o <<"\"">> \o
                     SubSeq(str, q, r - 1) \o <<"\"", ":">>]
       ELSE NoMatch

\* /:\s*'([^']*)'/ replaced by ': "$1"'
SingleQuoted(str, p) ==
    LET q == SkipSpace(str, p + 1)
        closing == {r \in (q + 1)..Len(str) : str[r] = "'"}
    IN IF str[p] = ":" /\ q <= Len(str) /\ str[q] = "'" /\ closing # {}
       THEN LET r == CHOOSE r \in closing : \A x \in closing : r <= x
            IN [len |-> r - p + 1,
                out |-> <<":", " ", "\"">> \o SubSeq(str, q + 1, r - 1) \o
                        <<"\"">>]
       ELSE NoMatch

\* /\n/, /\r/ and /\t/ replaced by ' '
ControlToSpace(str, p) ==
    IF str[p] \in {"\n", "\r", "\t"}
    THEN [len |-> 1, out |-> <<" ">>]
    ELSE NoMatch

\* /\s+/ replaced by ' '
SpaceRun(str, p) ==
    IF str[p] \in WhiteSpace
    THEN [len |-> SkipSpace(str, p) - p, out |-> <<" ">>]
    ELSE NoMatch

\* the match of a pattern that starts at p, and what replaces it
MatchAt(pattern, str, p) ==
    CASE pattern = "commaBeforeBrace" -> CommaBeforeBrace(str, p)
      [] pattern = "commaBeforeBracket" -> CommaBeforeBracket(str, p)
      [] pattern = "unquotedKey" -> UnquotedKey(str, p)
      [] pattern = "singleQuoted" -> SingleQuoted(str, p)
      [] pattern = "controlToSpace" -> ControlToSpace(str, p)
      [] pattern = "spaceRun" -> SpaceRun(str, p)

\* str.replace(/.../g, ...): the matches are replaced from left to right;
\* scan is the position reached and the text produced so far
RECURSIVE Replace(_, _, _)
Replace(pattern, str, scan) ==
    IF scan.p > Len(str) THEN scan.out
    ELSE LET m == MatchAt(pattern, str, scan.p) IN
         Replace(pattern, str,
                 IF m.len > 0
                 THEN [p |-> scan.p + m.len, out |-> scan.out \o m.out]
                 ELSE [p |-> scan.p + 1,
                       out |-> Append(scan.out, str[scan.p])])

ReplaceAll(pattern, str) == Replace(pattern, str, [p |-> 1, out |-> <<>>])

\* the clean-up of the matched span, replacement by replacement, and trim()
CleanUp(jsonString) ==
    LET a == ReplaceAll("commaBeforeBrace", jsonString)
        b == ReplaceAll("commaBeforeBracket", a)
        c == ReplaceAll("unquotedKey", b)
        d == ReplaceAll("singleQuoted", c)
        e == ReplaceAll("controlToSpace", d)
        f == ReplaceAll("spaceRun", e)
    IN Trim(f)

\* content.match(/\[[\s\S]*\]/): from the first '[' to the last ']' after it.
\* (The second pattern of the code, /\[\s*\{[\s\S]*\}\s*\]/, is tried only
\* when this one finds nothing, and then finds nothing either.)
NoSpan == <<>>
ArraySpan(content) ==
    LET opening == {p \in DOMAIN content : content[p] = "["}
        first == CHOOSE p \in opening : \A x \in opening : p <= x
        closing == {p \in DOMAIN content : content[p] = "]" /\ p > first}
        last == CHOOSE p \in closing : \A x \in closing : p >= x
    IN IF opening = {} \/ closing = {} THEN NoSpan
       ELSE SubSeq(content, first, last)

\* -------------------------------------------------------------------- JSON
\* A JSON value is a record of its type and its value: the text of a string,
\* the word of a number, true, false or null, the items of an array, the
\* members of an object in the order of the text.
JsonString(text) == [type |-> "string", value |-> text]
JsonLiteral(word) == [type |-> "literal", value |-> <<word>>]
JsonArray(items) == [type |-> "array", value |-> items]
JsonObject(members) == [type |-> "object", value |-> members]
Member(key, value) == [key |-> key, value |-> value]
Null == JsonLiteral("null")
\* the words that are JSON values: numbers, null, true and false
Literals == {"null", "true", "false", "0", "1", "2"}

\* the outcome of parsing a value: whether there is one, the value, and the
\* position after it
SyntaxError == [ok |-> FALSE, value |-> Null, next |-> 0]
Parsed(value, next) == [ok |-> TRUE, value |-> value, next |-> next]

\* the control characters that an escape letter stands for
Escapes == [c \in {"n", "r", "t"} |->
               CASE c = "n" -> "\n" [] c = "r" -> "\r" [] c = "t" -> "\t"]

\* the rest of a string from p on, text being what was read of it
RECURSIVE StringBody(_, _, _)
StringBody(str, p, text) ==
    IF p > Len(str) THEN SyntaxError
    ELSE IF str[p] = "\"" THEN Parsed(JsonString(text), p + 1)
    ELSE IF str[p] = "\\"
         THEN IF p < Len(str) /\ str[p + 1] \in {"\"", "\\"}
              THEN StringBody(str, p + 2, Append(text, str[p + 1]))
              ELSE IF p < Len(str) /\ str[p + 1] \in DOMAIN Escapes
              THEN StringBody(str, p + 2, Append(text, Escapes[str[p + 1]]))
              ELSE SyntaxError
    ELSE IF str[p] \in {"\n", "\r", "\t"} THEN SyntaxError
    ELSE StringBody(str, p + 1, Append(text, str[p]))

RECURSIVE ParseValue(_, _)
RECURSIVE ParseItems(_, _, _)
RECURSIVE ParseMembers(_, _, _)

\* the value that starts at p, after white space
ParseValue(str, p) ==
    LET q == SkipSpace(str, p) IN
    IF q > Len(str) THEN SyntaxError
    ELSE IF str[q] = "\"" THEN StringBody(str, q + 1, <<>>)
    ELSE IF str[q] \in Literals THEN Parsed(JsonLiteral(str[q]), q + 1)
    ELSE IF str[q] = "["
         THEN LET r == SkipSpace(str, q + 1) IN
              IF r <= Len(str) /\ str[r] = "]"
              THEN Parsed(JsonArray(<<>>), r + 1)
              ELSE ParseItems(str, r, <<>>)
    ELSE IF str[q] = "{"
         THEN LET r == SkipSpace(str, q + 1) IN
              IF r <= Len(str) /\ str[r] = "}"
              THEN Parsed(JsonObject(<<>>), r + 1)
              ELSE ParseMembers(str, r, <<>>)
    ELSE SyntaxError

\* the items of an array from p on, up to its ']'
ParseItems(str, p, items) ==
    LET item == ParseValue(str, p)
        q == SkipSpace(str, item.next)
    IN IF ~item.ok \/ q > Len(str) THEN SyntaxError
       ELSE IF str[q] = ","
            THEN ParseItems(str, q + 1, Append(items, item.value))
       ELSE IF str[q] = "]"
            THEN Parsed(JsonArray(Append(items, item.value)), q + 1)
       ELSE SyntaxError

\* the members of an object from p on, up to its '}'
ParseMembers(str, p, members) ==
    LET q == SkipSpace(str, p)
        key == IF q <= Len(str) /\ str[q] = "\""
               THEN StringBody(str, q + 1, <<>>)
               ELSE SyntaxError
        colon == SkipSpace(str, key.next)
        value == IF key.ok /\ colon <= Len(str) /\ str[colon] = ":"
                 THEN ParseValue(str, colon + 1)
                 ELSE SyntaxError
        r == SkipSpace(str, value.next)
        member == Member(key.value.value, value.value)
    IN IF ~value.ok \/ r > Len(str) THEN SyntaxError
       ELSE IF str[r] = ","
            THEN ParseMembers(str, r + 1, Append(members, member))
       ELSE IF str[r] = "}"
            THEN Parsed(JsonObject(Append(members, member)), r + 1)
       ELSE SyntaxError

\* JSON.parse(str): the value, or a SyntaxError
JsonParse(str) ==
    LET parsed == ParseValue(str, 1) IN
    IF parsed.ok /\ SkipSpace(str, parsed.next) > Len(str)
    THEN parsed
    ELSE SyntaxError

\* the text of a string between its quotes, with '"', '\' and the control
\* characters escaped
RECURSIVE Escape(_)
Escape(text) ==
    IF text = <<>> THEN <<>>
    ELSE (IF Head(text) \in {"\"", "\\"}
          THEN <<"\\", Head(text)>>
          ELSE IF \E c \in DOMAIN Escapes : Escapes[c] = Head(text)
          THEN <<"\\", CHOOSE c \in DOMAIN Escapes :
                             Escapes[c] = Head(text)>>
          ELSE <<Head(text)>>) \o Escape(Tail(text))

RECURSIVE Stringify(_)
RECURSIVE StringifyItems(_, _)
RECURSIVE StringifyMembers(_, _)

\* JSON.stringify(value)
Stringify(v) ==
    CASE v.type = "string" -> <<"\"">> \o Escape(v.value) \o <<"\"">>
      [] v.type = "literal" -> v.value
      [] v.type = "array" -> <<"[">> \o StringifyItems(v.value, 1) \o <<"]">>
      [] v.type = "object" ->
             <<"{">> \o StringifyMembers(v.value, 1) \o <<"}">>

StringifyItems(items, n) ==
    IF n > Len(items) THEN <<>>
    ELSE Stringify(items[n]) \o
         (IF n < Len(items) THEN <<",">> ELSE <<>>) \o
         StringifyItems(items, n + 1)

StringifyMembers(members, n) ==
    IF n > Len(members) THEN <<>>
    ELSE <<"\"">> \o Escape(members[n].key) \o <<"\"", ":">> \o
         Stringify(members[n].value) \o
         (IF n < Len(members) THEN <<",">> ELSE <<>>) \o
         StringifyMembers(members, n + 1)

\* JSON.stringify(value, null, 2) of a value at a depth of nesting: every
\* item and member on a line of its own, indented by two spaces per level
RECURSIVE Indent(_)
Indent(depth) == IF depth = 0 THEN <<>> ELSE <<" ", " ">> \o Indent(depth - 1)

RECURSIVE StringifyIndented(_, _)
RECURSIVE IndentedItems(_, _, _)
RECURSIVE IndentedMembers(_, _, _)

StringifyIndented(v, depth) ==
    CASE v.type = "array" /\ v.value # <<>> ->
             <<"[", "\n">> \o IndentedItems(v.value, 1, depth + 1)
                 \o Indent(depth) \o <<"]">>
      [] v.type = "object" /\ v.value # <<>> ->
             <<"{", "\n">> \o IndentedMembers(v.value, 1, depth + 1)
                 \o Indent(depth) \o <<"}">>
      [] OTHER -> Stringify(v)

IndentedItems(items, n, depth) ==
    IF n > Len(items) THEN <<>>
    ELSE Indent(depth) \o StringifyIndented(items[n], depth) \o
         (IF n < Len(items) THEN <<",">> ELSE <<>>) \o <<"\n">> \o
         IndentedItems(items, n + 1, depth)

IndentedMembers(members, n, depth) ==
    IF n > Len(members) THEN <<>>
    ELSE Indent(depth) \o
         <<"\"">> \o Escape(members[n].key) \o <<"\"", ":", " ">> \o
         StringifyIndented(members[n].value, depth) \o
         (IF n < Len(members) THEN <<",">> ELSE <<>>) \o <<"\n">> \o
         IndentedMembers(members, n + 1, depth)

\* ----------------------------------------------------------- the parser
\* the state of the scanner that extracts the objects one by one: i is the
\* position of the loop (from 1, as in the code)
NewScanner ==
    [i |-> 1, depth |-> 0, currentObj |-> <<>>, inString |-> FALSE,
     escapeNext |-> FALSE, objects |-> <<>>]

\* one iteration of the scanner, on the character at i
ScanChar(jsonString, scan) ==
    LET char == jsonString[scan.i + 1]
        next == [scan EXCEPT !.i = @ + 1]
        inString == IF char = "\"" THEN ~scan.inString ELSE scan.inString
        closed == Append(scan.currentObj, char)
        obj == JsonParse(closed)
    IN IF scan.escapeNext
       THEN [next EXCEPT !.escapeNext = FALSE,
                         !.currentObj = Append(@, char)]
       ELSE IF char = "\\"
       THEN [next EXCEPT !.escapeNext = TRUE,
                         !.currentObj = Append(@, char)]
       ELSE IF inString
       THEN [next EXCEPT !.inString = inString,
                         !.currentObj = Append(@, char)]
       ELSE IF char = "{"
       THEN [next EXCEPT !.inString = inString,
                         !.currentObj = IF scan.depth = 0 THEN <<"{">>
                                        ELSE Append(@, char),
                         !.depth = @ + 1]
       ELSE IF char = "}"
       THEN IF scan.depth - 1 = 0
            THEN [next EXCEPT !.inString = inString,
                              !.depth = 0,
                              !.currentObj = <<>>,
                              !.objects = IF obj.ok
                                          THEN Append(@, obj.value)
                                          ELSE @]
            ELSE [next EXCEPT !.inString = inString,
                              !.depth = @ - 1,
                              !.currentObj = closed]
       ELSE IF scan.depth > 0
       THEN [next EXCEPT !.inString = inString,
                         !.currentObj = Append(@, char)]
       ELSE [next EXCEPT !.inString = inString]

\* for (let i = 1; i < jsonString.length - 1; i++): the objects collected
RECURSIVE ScanObjects(_, _)
ScanObjects(jsonString, scan) ==
    IF scan.i < Len(jsonString) - 1
    THEN ScanObjects(jsonString, ScanChar(jsonString, scan))
    ELSE scan.objects

\* the member of an object, undefined when it has none
Undefined == [type |-> "undefined", value |-> <<>>]
Get(q, key) ==
    LET at == {n \in DOMAIN q.value : q.value[n].key = <<key>>} IN
    IF q.type # "object" \/ at = {} THEN Undefined
    ELSE q.value[CHOOSE n \in at : \A m \in at : n >= m].value

\* what `!v` negates and `v || d` tests
Truthy(v) ==
    CASE v.type = "undefined" -> FALSE
      [] v.type = "string" -> v.value # <<>>
      [] v.type = "literal" -> v.value[1] \notin {"null", "false", "0"}
      [] OTHER -> TRUE
Or(v, d) == IF Truthy(v) THEN v ELSE d
IsArray(v) == v.type = "array"

\* the filter: !q || typeof q !== 'object' || !q.question drops an entry
IsQuestion(q) ==
    /\ q.type \in {"object", "array"}
    /\ Truthy(Get(q, "question"))

\* the id given to the entry at index of the filtered list that has none: the
\* topic, the time stamp and random suffix of the call, and the index
GeneratedId(topic, index) ==
    JsonString(<<topic, "_", "stamp", "_", ToString(index)>>)

\* the candidate made of a surviving entry
Enhance(q, topic, index) ==
    [id |-> Or(Get(q, "id"), GeneratedId(topic, index)),
     question |-> Or(Get(q, "question"),
                     JsonString(<<"No question text provided">>)),
     difficulty |-> Or(Get(q, "difficulty"), JsonString(<<"medium">>)),
     topic |-> topic,
     tags |-> IF IsArray(Get(q, "tags")) THEN Get(q, "tags")
              ELSE JsonArray(<<JsonString(<<"general">>)>>),
     example |-> Or(Get(q, "example"), JsonString(<<>>)),
     options |-> IF IsArray(Get(q, "options")) THEN Get(q, "options")
                 ELSE JsonArray(<<>>),
     answer |-> Or(Get(q, "answer"), JsonString(<<>>))]

\* the one element of a set of one: the stages below are each applied to
\* the value that the stage before has left
The(set) == CHOOSE x \in set : TRUE

\* questions.filter(...).map(...)
ValidQuestions(entries, topic) ==
    The({[n \in DOMAIN kept |-> Enhance(kept[n], topic, n - 1)] :
             kept \in {SelectSeq(entries, IsQuestion)}})

\* the entries when JSON.parse has returned a value
Found(parsed) ==
    [kind |-> "found",
     questions |-> IF IsArray(parsed.value) THEN parsed.value.value
                   ELSE <<parsed.value>>]

\* The entries found in the cleaned span: those of JSON.parse, or when it
\* throws, those of the scanner; "none" is the scanner's early return, and
\* "raised" an error that leaves the inner try.
ExtractNoScanner(jsonString) ==
    The({IF parsed.ok THEN Found(parsed)
         ELSE [kind |-> "raised", questions |-> <<>>] :
             parsed \in {JsonParse(jsonString)}})

Extract(jsonString) ==
    The({IF parsed.ok THEN Found(parsed)
         ELSE The({IF objects = <<>>
                   THEN [kind |-> "none", questions |-> <<>>]
                   ELSE [kind |-> "found", questions |-> objects] :
                       objects \in {ScanObjects(jsonString, NewScanner)}}) :
             parsed \in {JsonParse(jsonString)}})

\* parseQuestions(content, topic): what it returns, or that it raises
Returns(candidates) == [kind |-> "returned", questions |-> candidates]
Raises == [kind |-> "raised", questions |-> <<>>]

\* the outer catch: return [] instead of throwing
OuterCatch(error) == Returns(<<>>)

\* from the entries on: the filter and the map
FromEntries(extracted, topic) ==
    IF extracted.kind = "raised" THEN OuterCatch(extracted)
    ELSE IF extracted.kind = "none" THEN Returns(<<>>)
    ELSE Returns(ValidQuestions(extracted.questions, topic))

\* from the span on: the clean-up and the extraction of the entries
FromSpan(span, topic) ==
    IF span = NoSpan THEN Returns(<<>>)
    ELSE The({The({FromEntries(extracted, topic) :
                       extracted \in {Extract(jsonString)}}) :
                  jsonString \in {CleanUp(span)}})

ParseQuestions(content, topic) ==
    The({FromSpan(span, topic) : span \in {ArraySpan(content)}})

\* ------------------------------------------------------------ the responses
\* a well-formed question object of the model output
QuestionObject(text, answer) ==
    JsonObject(<<Member(<<"question">>, JsonString(text)),
                 Member(<<"answer">>, JsonString(answer)),
                 Member(<<"options">>,
                        JsonArray(<<JsonString(<<"first">>),
                                    JsonString(<<"second">>)>>)),
                 Member(<<"tags">>, JsonArray(<<JsonString(<<"arrays">>)>>)),
                 Member(<<"example">>, JsonString(<<"sample">>))>>)
\* the same with an id and a difficulty
QuestionObjectWith(id, difficulty, text) ==
    JsonObject(<<Member(<<"id">>, JsonString(<<id>>)),
                 Member(<<"difficulty">>, JsonString(<<difficulty>>)),
                 Member(<<"question">>, JsonString(text)),
                 Member(<<"answer">>, JsonString(<<"one">>))>>)

What == QuestionObject(<<"what", " ", "is", " ", "x">>, <<"one">>)
Why == QuestionObject(<<"why">>, <<"two">>)
\* a question text with two spaces in a row, and one with ", word:" in it
Spaced == QuestionObject(<<"what", " ", " ", "is">>, <<"one">>)
Labelled == QuestionObject(<<"pick", ",", " ", "x", ":", " ", "y">>, <<"one">>)

\* A response body: the content of its first choice, what the content is
\* (class), and the objects of the array it was written from.
Response(class, content, objects) ==
    [class |-> class, content |-> content, objects |-> objects]
InProse(before, objects, after) ==
    Response("wellFormed",
             before \o Stringify(JsonArray(objects)) \o after, objects)
\* the text of the array cut after keep symbols; its objects are those whose
\* closing brace comes before the last closing bracket that is left
LastBracket(str) ==
    LET at == {n \in DOMAIN str : str[n] = "]"} IN
    IF at = {} THEN 0 ELSE CHOOSE n \in at : \A m \in at : n >= m
Truncated(objects, keep) ==
    LET text == SubSeq(Stringify(JsonArray(objects)), 1, keep)
        ends == [k \in DOMAIN objects |->
                    Len(Stringify(JsonArray(SubSeq(objects, 1, k)))) - 1]
        whole == {k \in DOMAIN objects : ends[k] < LastBracket(text)}
    IN Response("truncated", text, SubSeq(objects, 1, Cardinality(whole)))

Responses ==
    { Response("empty", <<>>, <<>>),
      Response("garbage", <<"Sorry", ",", " ", "no", " ", "questions", ".">>,
               <<>>),
      Response("garbage", <<"see", " ", "[", "1", "]", ".">>, <<>>),
      InProse(<<>>, <<What, Why>>, <<>>),
      InProse(<<"Here", " ", "you", " ", "are", ":", "\n">>, <<What, Why>>,
              <<"\n", "Enjoy", ".">>),
      InProse(<<"[", "1", "]", " ">>, <<What, Why>>, <<>>),
      InProse(<<>>, <<Spaced>>, <<>>),
      InProse(<<>>, <<What, Labelled>>, <<>>),
      Truncated(<<What, Why>>, 20),
      Truncated(<<What, Why>>, 65),
      Truncated(<<What, Why>>, 97),
      Response("repairable",
               <<"[", "{", "question", ":", " ", "'", "what", "'", ",", "\n",
                 "answer", ":", " ", "'", "one", "'", ",", " ", "}", ",",
                 "]">>, <<>>),
      Response("ids",
               Stringify(JsonArray(<<
                   QuestionObjectWith("1", "easy", <<"what">>),
                   QuestionObjectWith("1", "mixed", <<"why">>)>>)), <<>>),
      Response("ids",
               Stringify(JsonArray(<<
                   JsonObject(<<Member(<<"question">>,
                                       JsonString(<<"what">>))>>),
                   JsonObject(<<Member(<<"answer">>,
                                       JsonString(<<"one">>))>>),
                   Null,
                   JsonObject(<<Member(<<"question">>,
                                       JsonString(<<"why">>))>>)>>)), <<>>),
      Response("noChoices", <<>>, <<>>) }

\* ------------------------------------------------------- the completion API
RetryAttempts == 3
ApiRetryDelay == 1000

\* the ways one HTTP attempt fails: fetch rejects, the abort signal fires
\* after the timeout, the status is not 2xx, the body is not JSON
AttemptFailures == {"network", "timeout", "status", "body"}
NoError == "none"
NoResponse == Response("none", <<>>, <<>>)
Attempt(outcome) == [event |-> "attempt", outcome |-> outcome]
Wait(ms) == [event |-> "wait", ms |-> ms]

IdleRequest ==
    [pc |-> "idle", topic |-> "", attempt |-> 0, lastError |-> NoError,
     log |-> <<>>, response |-> NoResponse, result |-> [kind |-> "none"]]

\* makeAPIRequest's catch waits before the next attempt
WaitsAlways(attempt) == TRUE
WaitsBeforeRetry(attempt) == attempt < RetryAttempts

\* fetchQuestions' catch
FailedToFetch(req) == [req EXCEPT !.pc = "done", !.result = Raises]

\* the for loop's increment and test, and the throw after the loop
NextAttempt(req) ==
    IF req.attempt + 1 <= RetryAttempts
    THEN [req EXCEPT !.pc = "attempt", !.attempt = @ + 1]
    ELSE FailedToFetch([req EXCEPT !.attempt = @ + 1])

\* fetchQuestions after makeAPIRequest returned the body
Received(req, body) ==
    IF body.class = "noChoices"
    THEN FailedToFetch([req EXCEPT !.response = body])
    ELSE LET parsed == ParseQuestions(body.content, req.topic)
         IN  IF parsed.kind = "raised"
             THEN FailedToFetch([req EXCEPT !.response = body])
             ELSE [req EXCEPT !.pc = "done", !.response = body,
                              !.result = Returns(parsed.questions)]

FetchQuestions(topic) ==
    /\ request.pc = "idle"
    /\ request' = [IdleRequest EXCEPT !.pc = "attempt", !.topic = topic,
                                      !.attempt = 1]
    /\ UNCHANGED besidesApi

AttemptFails(error) ==
    /\ request.pc = "attempt"
    /\ LET failed == [request EXCEPT !.lastError = error,
                                     !.log = Append(@, Attempt(error))]
       IN  request' =
               IF WaitsBeforeRetry(request.attempt)
               THEN [failed EXCEPT !.pc = "retryDelay",
                                   !.log = Append(@, Wait(ApiRetryDelay))]
               ELSE NextAttempt(failed)
    /\ UNCHANGED besidesApi

RetryDelayElapsed ==
    /\ request.pc = "retryDelay"
    /\ request' = NextAttempt(request)
    /\ UNCHANGED besidesApi

AttemptReturns(body) ==
    /\ request.pc = "attempt"
    /\ request' = Received([request EXCEPT !.log = Append(@, Attempt("ok"))],
                           body)
    /\ UNCHANGED besidesApi

FetchNext ==
    \/ \E topic \in Topics : FetchQuestions(topic)
    \/ \E error \in AttemptFailures : AttemptFails(error)
    \/ RetryDelayElapsed
    \/ \E body \in Responses : AttemptReturns(body)

\* ---------------------------------------------------- similarity on its own
Alphabet == {"a", "b"}
Texts == UNION {[1..n -> Alphabet] : n \in 0..MaxTextLen}
NoSimilarity ==
    [called |-> FALSE, str1 |-> <<>>, str2 |-> <<>>,
     result |-> [num |-> 0, den |-> 1], swapped |-> [num |-> 0, den |-> 1]]

\* calculateSimilarity(str1, str2) and calculateSimilarity(str2, str1)
Compare(str1, str2) ==
    /\ ~similarity.called
    /\ similarity' = [called |-> TRUE, str1 |-> str1, str2 |-> str2,
                      result |-> CalculateSimilarity(str1, str2),
                      swapped |-> CalculateSimilarity(str2, str1)]
    /\ UNCHANGED besidesSimilarity

SimilarityNext == \E str1, str2 \in Texts : Compare(str1, str2)

\* --------------------------------------------------------------- the backups
Models == {"deepseek", "openai"}
Mixed == "mixed"
\* the time stamp of the one backup of a run
Now == "now"
NoFile == <<>>

\* the candidate as the object that JSON.stringify writes
ToJson(candidate) ==
    JsonObject(<<Member(<<"id">>, candidate.id),
                 Member(<<"question">>, candidate.question),
                 Member(<<"difficulty">>, candidate.difficulty),
                 Member(<<"topic">>, JsonString(<<candidate.topic>>)),
                 Member(<<"tags">>, candidate.tags),
                 Member(<<"example">>, candidate.example),
                 Member(<<"options">>, candidate.options),
                 Member(<<"answer">>, candidate.answer)>>)
Objects(candidates) == [n \in DOMAIN candidates |-> ToJson(candidates[n])]

\* backupData of saveQuestionsToFile
BackupData(topic, model, difficulty, candidates) ==
    JsonObject(<<
        Member(<<"metadata">>,
               JsonObject(<<
                   Member(<<"topic">>, JsonString(<<topic>>)),
                   Member(<<"model">>, JsonString(<<model>>)),
                   Member(<<"difficulty">>, JsonString(<<difficulty>>)),
                   Member(<<"timestamp">>, JsonString(<<Now>>)),
                   Member(<<"count">>,
                          JsonLiteral(ToString(Len(candidates)))),
                   Member(<<"source">>,
                          JsonString(<<"AI", " ", "API">>))>>)),
        Member(<<"questions">>, JsonArray(Objects(candidates)))>>)
FileName(topic, model, difficulty) == <<topic, model, difficulty, Now>>
File(name, content) == [name |-> name, content |-> content]
\* fs.writeFile(filepath, content)
WriteFile(name, content) ==
    {f \in files : f.name # name} \cup {File(name, content)}

\* loadQuestionsFromFile(filepath): the questions of the file, and [] when it
\* cannot be read or parsed
LoadQuestionsFromFile(filepath) ==
    LET found == {f \in files : f.name = filepath}
        backupData == JsonParse((CHOOSE f \in found : TRUE).content)
    IN IF filepath = NoFile \/ found = {} \/ ~backupData.ok THEN <<>>
       ELSE Get(backupData.value, "questions").value

\* ---------------------------------------------------------- the single fetch
IdleSingle ==
    [pc |-> "idle", topic |-> "", model |-> "", questions |-> <<>>,
     backupFile |-> NoFile, loaded |-> <<>>]

HandleSingleFetch(topic, model) ==
    /\ single.pc = "idle"
    /\ single' = [IdleSingle EXCEPT !.pc = "fetching", !.topic = topic,
                                    !.model = model]
    /\ UNCHANGED <<files, besidesBackup>>

\* fetchQuestions has ended: it raised, or returned its candidates
Fetched(fetched) ==
    /\ single.pc = "fetching"
    /\ single' =
           IF fetched.kind = "raised" THEN [single EXCEPT !.pc = "raised"]
           ELSE IF Len(fetched.questions) = 0
           THEN [single EXCEPT !.pc = "returned"]
           ELSE [single EXCEPT !.pc = "backup",
                               !.questions = fetched.questions]
    /\ UNCHANGED <<files, besidesBackup>>

\* saveQuestionsToFile has ended: the file is written, or the error of mkdir
\* or writeFile was caught and null returned
SaveQuestionsToFile(written) ==
    /\ single.pc = "backup"
    /\ LET name == FileName(single.topic, single.model, Mixed)
           content == StringifyIndented(
                          BackupData(single.topic, single.model, Mixed,
                                     single.questions), 0)
       IN IF written
          THEN /\ files' = WriteFile(name, content)
               /\ single' = [single EXCEPT !.pc = "saving",
                                           !.backupFile = name]
          ELSE /\ files' = files
               /\ single' = [single EXCEPT !.pc = "saving",
                                           !.backupFile = NoFile]
    /\ UNCHANGED besidesBackup

\* saveQuestions has ended: it returned counts, or it raised
Saved(ok) ==
    /\ single.pc = "saving"
    /\ single' = [single EXCEPT !.pc = IF ok THEN "returned"
                                       ELSE "saveFailed"]
    /\ UNCHANGED <<files, besidesBackup>>

\* the questions are read back from the backup that the run named
Restore ==
    /\ single.pc = "saveFailed"
    /\ single' = [single EXCEPT
                      !.pc = "restored",
                      !.loaded = LoadQuestionsFromFile(single.backupFile)]
    /\ UNCHANGED <<files, besidesBackup>>

SingleNext ==
    \/ \E topic \in Topics, model \in Models : HandleSingleFetch(topic, model)
    \/ \E body \in Responses :
           \E ended \in {Received([IdleRequest EXCEPT
                                      !.topic = single.topic], body)} :
               Fetched(ended.result)
    \/ Fetched(Raises)
    \/ \E written \in BOOLEAN : SaveQuestionsToFile(written)
    \/ \E ok \in BOOLEAN : Saved(ok)
    \/ Restore

\* ------------------------------------------------- the session without end
\* The loop of fetchUntilTarget with what steers it kept exact: the flags,
\* consecutiveFailures, sessionSaved and the arguments.  The four totals of
\* stats, which the loop writes and never reads, are held at MaxCounted once
\* they reach it, and nothing is recorded about the session, so that a
\* session that goes round for ever comes back to a state it has been in.
Held(st) ==
    [st EXCEPT !.totalFetched = Min(@, MaxCounted),
               !.totalSaved = Min(@, MaxCounted),
               !.totalDuplicates = Min(@, MaxCounted),
               !.batchesCompleted = Min(@, MaxCounted)]

\* the loop head, and the break
WhileHead(stop, saved, target, batch) ==
    IF LoopCondition(stop, saved, target)
    THEN /\ pc' = "fetching"
         /\ batchToFetch' = BatchToFetch(batch, target, saved)
    ELSE /\ pc' = "exit"
         /\ batchToFetch' = 0
Break ==
    /\ pc' = "exit"
    /\ batchToFetch' = 0

\* an accepted startRecursiveFetching, up to its first await
Started(t, b) ==
    /\ StartVerdict(isRunning, t, b) = "accepted"
    /\ isRunning' = TRUE
    /\ shouldStop' = FALSE
    /\ stats' = NewStats(TRUE)
    /\ targetCount' = t
    /\ batchSize' = EffectiveBatchSize(b)
    /\ sessionSaved' = 0
    /\ questions' = 0
    /\ thrown' = FALSE
    /\ returned' = NoReturn
    /\ WhileHead(FALSE, 0, t, EffectiveBatchSize(b))
    /\ UNCHANGED <<lastCall, history, besidesController>>

\* stop() during a session
Stopped ==
    /\ isRunning
    /\ ~shouldStop
    /\ shouldStop' = TRUE
    /\ UNCHANGED <<isRunning, stats, pc, session, batchToFetch, questions,
                   thrown, returned, lastCall, history, besidesController>>

\* fetchQuestions resolves with n candidates
Fetch(n) ==
    /\ pc = "fetching"
    /\ IF n = 0
       THEN /\ stats' = FailureTick(stats)
            /\ questions' = 0
            /\ IF BudgetExhausted(stats') THEN Break
               ELSE pc' = "retryDelay" /\ batchToFetch' = 0
       ELSE /\ pc' = "saving"
            /\ questions' = n
            /\ UNCHANGED <<stats, batchToFetch>>
    /\ UNCHANGED <<isRunning, shouldStop, session, thrown, returned,
                   lastCall, history, besidesController>>

\* fetchQuestions or saveQuestions rejects: the catch block
Caught ==
    /\ pc \in {"fetching", "saving"}
    /\ stats' = CatchError(stats).stats
    /\ questions' = 0
    /\ thrown' = CatchError(stats).rethrown
    /\ IF thrown' \/ BudgetExhausted(stats') THEN Break
       ELSE pc' = "retryDelay" /\ batchToFetch' = 0
    /\ UNCHANGED <<isRunning, shouldStop, session, returned, lastCall,
                   history, besidesController>>

\* saveQuestions resolves with r
Save(r) ==
    /\ pc = "saving"
    /\ stats' = Held(NothingSavedTick(
                         Accumulate(stats, questions, r.saved, r.duplicates),
                         r.saved))
    /\ sessionSaved' = sessionSaved + r.saved
    /\ questions' = 0
    /\ IF r.saved = 0 /\ BudgetExhausted(stats') THEN Break
       ELSE IF LoopCondition(shouldStop, sessionSaved', targetCount)
       THEN pc' = "batchDelay" /\ batchToFetch' = 0
       ELSE Break
    /\ UNCHANGED <<isRunning, shouldStop, targetCount, batchSize, thrown,
                   returned, lastCall, history, besidesController>>

\* a delay resolves and the loop condition is evaluated again
Delayed ==
    /\ pc \in {"retryDelay", "batchDelay"}
    /\ WhileHead(shouldStop, sessionSaved, targetCount, batchSize)
    /\ UNCHANGED <<ctrl, session, questions, thrown, returned, lastCall,
                   history, besidesController>>

\* fetchUntilTarget has settled: the return or the rethrow, and the finally
\* block
Finally ==
    /\ pc = "exit"
    /\ returned' = (IF thrown THEN [NoReturn EXCEPT !.kind = "error"]
                    ELSE GetFinalStats(stats, targetCount))
    /\ isRunning' = FALSE
    /\ thrown' = FALSE
    /\ pc' = "idle"
    /\ UNCHANGED <<shouldStop, stats, session, batchToFetch, questions,
                   lastCall, history, besidesController>>

\* the steps that the source, the store and the timers take
Progress ==
    \/ \E n \in 0..(batchToFetch + MaxExtra) : Fetch(n)
    \/ Caught
    \/ \E r \in SaveResults(questions) : Save(r)
    \/ Delayed
    \/ Finally

LiveNext ==
    \/ \E t \in TargetCounts, b \in BatchSizeArgs : Started(t, b)
    \/ Stopped
    \/ Progress

\* ------------------------------------------------------------- the store
\* the callers of saveQuestions; each makes one call, and the calls run one
\* after the other or interleaved
SaveCallers == {"first", "second"}

NoResult == [kind |-> "none", saved |-> 0, duplicates |-> 0, total |-> 0]
\* the call rejects (throws to its caller)
Failed == [kind |-> "error", saved |-> 0, duplicates |-> 0, total |-> 0]
Counts(saved, duplicates, total) ==
    [kind |-> "counts", saved |-> saved, duplicates |-> duplicates,
     total |-> total]

\* A call of saveQuestions(topic, newQuestions) that has not started.  i and k
\* are the positions of the two loops.  The fields from detection on are
\* history: the verdict of detection for each candidate, the outcome of the
\* write of each unique candidate, the transport errors met, the size of the
\* collection when the call started and when it returned, and the callers
\* whose call had returned when this one started.
IdleCall ==
    [pc |-> "idle", topic |-> "", newQuestions |-> <<>>, i |-> 0,
     uniqueQuestions |-> <<>>, skippedCount |-> 0, k |-> 0,
     savedQuestions |-> <<>>, failedCount |-> 0, result |-> NoResult,
     detection |-> <<>>, outcome |-> <<>>, transportErrors |-> 0,
     dbAtStart |-> 0, dbAtEnd |-> 0, startedAfter |-> {}]

\* a candidate as the parser hands it over: its topic is the topic of the call
WithTopic(q, topic) ==
    [question |-> q.question, answer |-> q.answer, hash |-> q.hash,
     topic |-> topic]

\* Question.countDocuments({ topic })
CountDocuments(records, topic) ==
    Cardinality({n \in DOMAIN records : records[n].topic = topic})

\* Question.findOne({ hash, topic }) finds a record
FindOne(records, hash, topic) ==
    \E n \in DOMAIN records :
        records[n].hash = hash /\ records[n].topic = topic

\* the fuzzy check over Question.find({ topic: question.topic })
IsSimilarAnyTopic(records, question) ==
    \E n \in DOMAIN records :
        ExceedsThreshold(CalculateSimilarity(question.question,
                                             records[n].question))

IsSimilar(records, question) ==
    \E n \in DOMAIN records :
        /\ records[n].topic = question.topic
        /\ ExceedsThreshold(CalculateSimilarity(question.question,
                                                records[n].question))

\* Question.findOne({ hash: question.hash }) finds a record
FindByHash(records, hash) ==
    \E n \in DOMAIN records : records[n].hash = hash

\* the validation of the schema: question and answer are required after trim
Valid(question) ==
    Trim(question.question) # <<>> /\ Trim(question.answer) # <<>>

\* the document that Question.create stores for a candidate
Document(question) ==
    [question |-> Trim(question.question), answer |-> Trim(question.answer),
     topic |-> question.topic, hash |-> question.hash]

\* the unique index on hash refuses the insertion (E11000)
DuplicateKeyNotEnforced(records, question) == FALSE

DuplicateKey(records, question) ==
    \E n \in DOMAIN records : records[n].hash = question.hash

\* the return of the case that no candidate passed detection
NoNewQuestionsNoDuplicates(call, total) == Counts(0, 0, total)

NoNewQuestions(call, total) == Counts(0, Len(call.newQuestions), total)

\* the return after the write loop
SavedCounts(call, total) ==
    Counts(Len(call.savedQuestions),
           Len(call.newQuestions) - Len(call.uniqueQuestions)
               + call.failedCount,
           total)

\* the head of the write loop
NextUnique(call) ==
    IF call.k <= Len(call.uniqueQuestions)
    THEN [call EXCEPT !.pc = "lookup"]
    ELSE [call EXCEPT !.pc = "count"]

\* the head of the detection loop, and what follows the loop
NextCandidate(call) ==
    IF call.i <= Len(call.newQuestions)
    THEN [call EXCEPT !.pc = "exact"]
    ELSE IF Len(call.uniqueQuestions) = 0
         THEN [call EXCEPT !.pc = "count"]
         ELSE NextUnique([call EXCEPT !.k = 1])

\* an error that leaves saveQuestions: the call rejects
Throw(call, size) ==
    [call EXCEPT !.pc = "done", !.result = Failed, !.dbAtEnd = size]

\* a store operation of the call met a transport error
Hit(call) == [call EXCEPT !.transportErrors = @ + 1]

\* a candidate of the write loop is given up, and the loop goes on
SkipUniqueAborts(call, why) ==
    [call EXCEPT !.failedCount = @ + 1,
                 !.outcome = Append(@, why),
                 !.pc = "count"]

SkipUnique(call, why) ==
    NextUnique([call EXCEPT !.failedCount = @ + 1,
                            !.outcome = Append(@, why),
                            !.k = @ + 1])

\* the catch of the write loop for an error that is not a duplicate key
CatchWriteErrorRethrow(call, size) == Throw(call, size)

CatchWriteError(call, size) == SkipUnique(call, "transport")

\* the catch of the write loop for a duplicate key error (code 11000)
CatchDuplicateKeyRethrow(call, size) == Throw(call, size)

CatchDuplicateKey(call, size) == [call EXCEPT !.pc = "describe"]

\* a store operation may fail with a transport error
MayFail(c, ok) == ok \/ saveCall[c].transportErrors < MaxTransportErrors

\* saveQuestions(topic, newQuestions) up to its first await
SaveQuestions(c, topic, batch) ==
    /\ saveCall[c].pc = "idle"
    /\ saveCall' = [saveCall EXCEPT ![c] =
           [IdleCall EXCEPT
               !.pc = "connect",
               !.topic = topic,
               !.newQuestions = [n \in DOMAIN batch |->
                                    WithTopic(batch[n], topic)],
               !.i = 1,
               !.dbAtStart = Len(db),
               !.startedAfter = {d \in SaveCallers :
                                    saveCall[d].pc = "done"}]]
    /\ UNCHANGED db
    /\ UNCHANGED besidesStore

\* ensureConnection() returns or throws
EnsureConnection(c, ok) ==
    LET call == saveCall[c] IN
    /\ call.pc = "connect"
    /\ MayFail(c, ok)
    /\ saveCall' = [saveCall EXCEPT ![c] =
           IF ok THEN NextCandidate(call) ELSE Throw(Hit(call), Len(db))]
    /\ UNCHANGED db
    /\ UNCHANGED besidesStore

\* Question.findOne({ hash, topic }) of the detection loop returns or throws
ExactCheck(c, ok) ==
    LET call == saveCall[c]
        question == call.newQuestions[call.i]
        hash == GenerateQuestionHash(question)
    IN /\ call.pc = "exact"
       /\ MayFail(c, ok)
       /\ saveCall' = [saveCall EXCEPT ![c] =
              IF ~ok THEN Throw(Hit(call), Len(db))
              ELSE IF FindOne(db, hash, question.topic)
                   THEN NextCandidate(
                            [call EXCEPT !.skippedCount = @ + 1,
                                         !.detection = Append(@, "exact"),
                                         !.i = @ + 1])
                   ELSE [call EXCEPT !.pc = "fuzzy"]]
       /\ UNCHANGED db
       /\ UNCHANGED besidesStore

\* Question.find({ topic }) of the detection loop returns or throws, and the
\* fuzzy check of its result
FuzzyCheck(c, ok) ==
    LET call == saveCall[c]
        question == call.newQuestions[call.i]
        hash == GenerateQuestionHash(question)
        hashed == IF question.hash = NoHash
                  THEN [question EXCEPT !.hash = hash]
                  ELSE question
    IN /\ call.pc = "fuzzy"
       /\ MayFail(c, ok)
       /\ saveCall' = [saveCall EXCEPT ![c] =
              IF ~ok THEN Throw(Hit(call), Len(db))
              ELSE IF IsSimilar(db, question)
                   THEN NextCandidate(
                            [call EXCEPT !.skippedCount = @ + 1,
                                         !.detection = Append(@, "fuzzy"),
                                         !.i = @ + 1])
                   ELSE NextCandidate(
                            [call EXCEPT !.uniqueQuestions = Append(@, hashed),
                                         !.detection = Append(@, "unique"),
                                         !.i = @ + 1])]
       /\ UNCHANGED db
       /\ UNCHANGED besidesStore

\* Question.findOne({ hash }) of the write loop returns or throws
HashLookup(c, ok) ==
    LET call == saveCall[c]
        question == call.uniqueQuestions[call.k]
    IN /\ call.pc = "lookup"
       /\ MayFail(c, ok)
       /\ saveCall' = [saveCall EXCEPT ![c] =
              IF ~ok THEN CatchWriteError(Hit(call), Len(db))
              ELSE IF FindByHash(db, question.hash)
                   THEN SkipUnique(call, "conflict")
                   ELSE [call EXCEPT !.pc = "create"]]
       /\ UNCHANGED db
       /\ UNCHANGED besidesStore

\* Question.create(question) returns or throws
Create(c, ok) ==
    LET call == saveCall[c]
        question == call.uniqueQuestions[call.k]
        inserted == Valid(question) /\ ok /\ ~DuplicateKey(db, question)
    IN /\ call.pc = "create"
       /\ MayFail(c, ok)
       /\ saveCall' = [saveCall EXCEPT ![c] =
              IF ~Valid(question) THEN SkipUnique(call, "invalid")
              ELSE IF ~ok THEN CatchWriteError(Hit(call), Len(db))
              ELSE IF DuplicateKey(db, question)
                   THEN CatchDuplicateKey(call, Len(db))
                   ELSE NextUnique(
                            [call EXCEPT
                                !.savedQuestions =
                                    Append(@, Document(question)),
                                !.outcome = Append(@, "written"),
                                !.k = @ + 1])]
       /\ db' = IF inserted THEN Append(db, Document(question)) ELSE db
       /\ UNCHANGED besidesStore

\* the catch of a duplicate key error: Question.findOne({ hash }) for the log
\* returns or throws, either way the candidate is counted as failed
DescribeDuplicate(c, ok) ==
    LET call == saveCall[c] IN
    /\ call.pc = "describe"
    /\ MayFail(c, ok)
    /\ saveCall' = [saveCall EXCEPT ![c] =
           SkipUnique(IF ok THEN call ELSE Hit(call), "conflict")]
    /\ UNCHANGED db
    /\ UNCHANGED besidesStore

\* Question.countDocuments({ topic }) returns or throws, and saveQuestions
\* returns
CountTotal(c, ok) ==
    LET call == saveCall[c]
        total == CountDocuments(db, call.topic)
    IN /\ call.pc = "count"
       /\ MayFail(c, ok)
       /\ saveCall' = [saveCall EXCEPT ![c] =
              IF ~ok THEN Throw(Hit(call), Len(db))
              ELSE [call EXCEPT
                       !.pc = "done",
                       !.dbAtEnd = Len(db),
                       !.result =
                           IF Len(call.uniqueQuestions) = 0
                           THEN NoNewQuestions(call, total)
                           ELSE SavedCounts(call, total)]]
       /\ UNCHANGED db
       /\ UNCHANGED besidesStore

StoreNext ==
    \/ \E c \in SaveCallers, topic \in Topics, batch \in Batches :
           SaveQuestions(c, topic, batch)
    \/ \E c \in SaveCallers, ok \in BOOLEAN : EnsureConnection(c, ok)
    \/ \E c \in SaveCallers, ok \in BOOLEAN : ExactCheck(c, ok)
    \/ \E c \in SaveCallers, ok \in BOOLEAN : FuzzyCheck(c, ok)
    \/ \E c \in SaveCallers, ok \in BOOLEAN : HashLookup(c, ok)
    \/ \E c \in SaveCallers, ok \in BOOLEAN : Create(c, ok)
    \/ \E c \in SaveCallers, ok \in BOOLEAN : DescribeDuplicate(c, ok)
    \/ \E c \in SaveCallers, ok \in BOOLEAN : CountTotal(c, ok)

\* ------------------------------------------- the process-wide connection
\* The factory saveQuestions of mongoStorage.js, which the controller calls:
\* it makes a MongoStorage of its own, saves through it and disconnects it in
\* its finally block.  Every MongoStorage works on the one MongoConnection of
\* the process and on the one connection of mongoose.

\* the store operations of a save call that carries one unique candidate
Operations ==
    <<"findOne", "find", "findOneByHash", "create", "countDocuments">>

\* the operations whose error the write loop catches and counts
CaughtInLoop == {"findOneByHash", "create"}

\* the singleton before the first connect; readyState is that of mongoose
NoConnection ==
    [isConnected |-> FALSE, connection |-> FALSE,
     readyState |-> "disconnected"]

\* no call of the caller is in progress; isConnected is that of the call's
\* MongoStorage, op the operation it waits for
NoFactoryCall ==
    [pc |-> "idle", isConnected |-> FALSE, op |-> 0, refused |-> FALSE,
     settled |-> "none"]

\* saveQuestions(topic, questions) of the factory up to its first await: new
\* MongoStorage(), storage.saveQuestions, ensureConnection and
\* mongoConnection.connect(), which returns at once when isConnected
FactorySave(c) ==
    /\ factoryCall[c].pc = "idle"
    /\ IF mongoConnection.isConnected
       THEN /\ factoryCall' = [factoryCall EXCEPT ![c] =
                   [NoFactoryCall EXCEPT !.pc = "operating",
                                         !.isConnected = TRUE,
                                         !.op = 1]]
            /\ UNCHANGED mongoConnection
       ELSE /\ factoryCall' = [factoryCall EXCEPT ![c] =
                   [NoFactoryCall EXCEPT !.pc = "connecting"]]
            /\ mongoConnection' =
                   [mongoConnection EXCEPT !.readyState = "connecting"]
    /\ UNCHANGED besidesConnection

\* mongoose.connect resolves: every call that awaits it goes on to
\* createIndexes
ConnectResolves ==
    /\ \E c \in SaveCallers : factoryCall[c].pc = "connecting"
    /\ mongoConnection' =
           [isConnected |-> TRUE, connection |-> TRUE,
            readyState |-> "connected"]
    /\ factoryCall' = [c \in SaveCallers |->
           IF factoryCall[c].pc = "connecting"
           THEN [factoryCall[c] EXCEPT !.pc = "indexes"]
           ELSE factoryCall[c]]
    /\ UNCHANGED besidesConnection

\* mongoose.connect rejects: connect rethrows, ensureConnection throws, and
\* the finally block of the factory finds a storage that is not connected
ConnectFails ==
    /\ \E c \in SaveCallers : factoryCall[c].pc = "connecting"
    /\ mongoConnection' =
           [mongoConnection EXCEPT !.readyState = "disconnected"]
    /\ factoryCall' = [c \in SaveCallers |->
           IF factoryCall[c].pc = "connecting"
           THEN [NoFactoryCall EXCEPT !.settled = "failed"]
           ELSE factoryCall[c]]
    /\ UNCHANGED besidesConnection

\* createIndexes has ended (its errors are caught): ensureConnection sets
\* isConnected of the storage and the first operation is issued
IndexesCreated(c) ==
    /\ factoryCall[c].pc = "indexes"
    /\ factoryCall' = [factoryCall EXCEPT ![c] =
           [@ EXCEPT !.pc = "operating", !.isConnected = TRUE, !.op = 1]]
    /\ UNCHANGED mongoConnection
    /\ UNCHANGED besidesConnection

\* the call after its operation op has ended without an error
Proceed(call) ==
    IF call.op < Len(Operations)
    THEN [call EXCEPT !.op = @ + 1]
    ELSE [call EXCEPT !.pc = "finally", !.settled = "counts"]

\* the call after its operation op was refused for want of a connection: the
\* write loop counts the candidate as failed and goes on to countDocuments,
\* the rest of saveQuestions rethrows
Refuse(call) ==
    IF Operations[call.op] \in CaughtInLoop
    THEN [call EXCEPT !.op = Len(Operations), !.refused = TRUE]
    ELSE [call EXCEPT !.pc = "finally", !.settled = "failed",
                      !.refused = TRUE]

\* the operation the call waits for settles: it is carried out when the
\* connection of mongoose is open, and refused when it is not
Operation(c) ==
    /\ factoryCall[c].pc = "operating"
    /\ factoryCall' = [factoryCall EXCEPT ![c] =
           IF mongoConnection.readyState = "connected"
           THEN Proceed(@)
           ELSE Refuse(@)]
    /\ UNCHANGED mongoConnection
    /\ UNCHANGED besidesConnection

\* the finally block of the factory: storage.disconnect() and, through it,
\* mongoConnection.disconnect(), which calls mongoose.disconnect()
FactoryFinally(c) ==
    /\ factoryCall[c].pc = "finally"
    /\ IF factoryCall[c].isConnected /\ mongoConnection.connection
       THEN /\ mongoConnection' =
                   [mongoConnection EXCEPT !.readyState = "disconnecting"]
            /\ factoryCall' =
                   [factoryCall EXCEPT ![c].pc = "disconnecting"]
       ELSE /\ factoryCall' = [factoryCall EXCEPT ![c] =
                   [@ EXCEPT !.pc = "idle", !.isConnected = FALSE]]
            /\ UNCHANGED mongoConnection
    /\ UNCHANGED besidesConnection

\* mongoose.disconnect resolves: isConnected of the singleton and of the
\* storage are reset and the call of the factory settles
Disconnected(c) ==
    /\ factoryCall[c].pc = "disconnecting"
    /\ mongoConnection' =
           [mongoConnection EXCEPT
               !.isConnected = FALSE,
               !.readyState = IF @ = "disconnecting" THEN "disconnected"
                              ELSE @]
    /\ factoryCall' = [factoryCall EXCEPT ![c] =
           [@ EXCEPT !.pc = "idle", !.isConnected = FALSE]]
    /\ UNCHANGED besidesConnection

ConnectionNext ==
    \/ \E c \in SaveCallers : FactorySave(c)
    \/ ConnectResolves
    \/ ConnectFails
    \/ \E c \in SaveCallers : IndexesCreated(c)
    \/ \E c \in SaveCallers : Operation(c)
    \/ \E c \in SaveCallers : FactoryFinally(c)
    \/ \E c \in SaveCallers : Disconnected(c)

\* ------------------------------------------------- the duplicate-check tool
\* checkDuplicates of the command-line tool, for one question of the backup
\* file against the records that loadQuestions returned for its topic

\* storage.loadQuestions(topic): the records of the topic
LoadQuestions(records, topic) ==
    SelectSeq(records, LAMBDA r : r.topic = topic)

\* `similarity > 0.8`, in hundredths
ToolThreshold == 80

ExceedsToolThreshold(sim) == sim.num * 100 > ToolThreshold * sim.den

\* the verdict of the tool on newQuestion
CheckDuplicates(existingQuestions, newQuestion) ==
    LET newHash == LegacyHash(newQuestion.question, newQuestion.topic) IN
    IF \E n \in DOMAIN existingQuestions :
           existingQuestions[n].hash = newHash
    THEN "duplicate"
    ELSE IF \E n \in DOMAIN existingQuestions :
                ExceedsToolThreshold(
                    CalculateSimilarity(newQuestion.question,
                                        existingQuestions[n].question))
         THEN "duplicate"
         ELSE "unique"

\* the verdict of saveQuestions on the same question: rejected by the exact
\* check or by the fuzzy check of the detection loop, or by the hash lookup
\* of the write loop
SaveClassifies(records, question) ==
    LET hash == GenerateQuestionHash(question)
        carried == IF question.hash = NoHash THEN hash ELSE question.hash
    IN IF \/ FindOne(records, hash, question.topic)
          \/ IsSimilar(records, question)
          \/ FindByHash(records, carried)
       THEN "duplicate"
       ELSE "unique"

\* the record that saveQuestions persists for a candidate of a topic
Persisted(q, topic) ==
    LET question == WithTopic(q, topic) IN
    Document(IF question.hash = NoHash
             THEN [question EXCEPT !.hash = GenerateQuestionHash(question)]
             ELSE question)

\* the questions given to the tool, and the corpora it is run against: empty,
\* or one record persisted from a valid candidate
Singles == {b[1] : b \in {a \in Batches : Len(a) = 1}}
Corpora ==
    {<<>>} \cup {<<Persisted(q, topic)>> :
                    q \in {s \in Singles : Valid(s)}, topic \in Topics}

NoCheck ==
    [called |-> FALSE, corpus |-> <<>>, question |-> <<>>,
     tool |-> "none", save |-> "none"]

\* the tool and the store are asked about the same question and corpus
Classify(corpus, q, topic) ==
    /\ ~duplicateCheck.called
    /\ \E question \in {WithTopic(q, topic)} :
           duplicateCheck' =
               [called |-> TRUE, corpus |-> corpus, question |-> question,
                tool |-> CheckDuplicates(LoadQuestions(corpus, topic),
                                        question),
                save |-> SaveClassifies(corpus, question)]
    /\ UNCHANGED besidesTool

ToolNext ==
    \E corpus \in Corpora, q \in Singles, topic \in Topics :
        Classify(corpus, q, topic)

\* ------------------------------------------------------- specifications
Next == \/ \E t \in TargetCounts, b \in BatchSizeArgs : Start(t, b)
        \/ Stop
        \/ \E n \in 0..(batchToFetch + MaxExtra) : FetchReturns(n)
        \/ FetchThrows
        \/ \E r \in SaveResults(questions) : SaveReturns(r)
        \/ SaveThrows
        \/ RetryDelayDone
        \/ BatchDelayDone
        \/ Settle

Init ==
    /\ isRunning = FALSE
    /\ shouldStop = FALSE
    /\ stats = NewStats(FALSE)
    /\ pc = "idle"
    /\ targetCount = 0
    /\ batchSize = 0
    /\ sessionSaved = 0
    /\ batchToFetch = 0
    /\ questions = 0
    /\ thrown = FALSE
    /\ returned = NoReturn
    /\ lastCall = Event("none")
    /\ fetchCalls = 0
    /\ sumSaved = 0
    /\ stopRequested = FALSE
    /\ fetchAfterStop = FALSE
    /\ allFull = TRUE
    /\ dupStreak = 0
    /\ emptyStreak = 0
    /\ db = <<>>
    /\ saveCall = [c \in SaveCallers |-> IdleCall]
    /\ request = IdleRequest
    /\ similarity = NoSimilarity
    /\ single = IdleSingle
    /\ files = {}
    /\ mongoConnection = NoConnection
    /\ factoryCall = [c \in SaveCallers |-> NoFactoryCall]
    /\ duplicateCheck = NoCheck

Spec == Init /\ [][Next]_vars

\* the store under its callers
StoreSpec == Init /\ [][StoreNext]_vars

FetchSpec == Init /\ [][FetchNext]_vars

SimilaritySpec == Init /\ [][SimilarityNext]_vars

SingleSpec == Init /\ [][SingleNext]_vars

\* the factory saveQuestions under two callers
ConnectionSpec == Init /\ [][ConnectionNext]_vars

\* the tool and the store on the same inputs
ToolSpec == Init /\ [][ToolNext]_vars

\* The promises of the source, of the store and of the timers settle, and
\* the continuation of a settled promise runs: the steps of Progress are
\* taken when they stay possible.  Nothing is assumed of the user: a start
\* or a stop may never come.
LiveSpec == Init /\ [][LiveNext]_vars /\ WF_vars(Progress)

\* ------------------------------------------------------------ properties
CeilDiv(a, b) == (a + b - 1) \div b

InLoop == pc \in {"fetching", "saving", "retryDelay", "batchDelay"}
Settled == pc = "idle" /\ returned.kind = "stats"
Rejected(call) ==
    call.verdict \in {"alreadyRunning", "exceedsMaximum", "invalidBatchSize"}
Failure(call) == call.op \in {"fetchThrew", "saveThrew"}

\* C1: once three consecutive batches have each returned candidates of which
\* none was saved, the session has left its loop, and when it has settled it
\* reports success = false, with finalSaved = 0 if nothing was saved before.
C1_AllDuplicatesExhaustBudget ==
    dupStreak >= MaxConsecutiveFailures =>
        /\ ~InLoop
        /\ Settled => /\ ~returned.success
                      /\ sumSaved = 0 => returned.finalSaved = 0

\* C2: a session in which every fetch returned exactly what was requested and
\* every save wrote all of it (and which was not stopped) settles after
\* ceil(T/B) batches and as many fetches with success = true and
\* finalSaved = T; no fetch is in flight once the target is reached.
C2_FullBatchesReachTarget ==
    /\ pc = "fetching" => sessionSaved < targetCount
    /\ (Settled /\ allFull /\ ~stopRequested /\ targetCount > 0) =>
           /\ returned.success
           /\ returned.finalSaved = targetCount
           /\ stats.batchesCompleted = CeilDiv(targetCount, batchSize)
           /\ fetchCalls = CeilDiv(targetCount, batchSize)

C2_Witness ==
    /\ Settled /\ allFull /\ ~stopRequested
    /\ targetCount = MaxTarget /\ batchSize = 5
    /\ stats.batchesCompleted >= 2
    /\ returned.finalSaved = MaxTarget

\* C3: an iteration that returned no candidates or raised an exception adds
\* one to consecutiveFailures; if the counter then is at
\* maxConsecutiveFailures the loop is left, otherwise the controller waits
\* retryDelay; a save that wrote at least one question leaves the counter at
\* 0; and no fetch or save is in flight and no delay pending with the counter
\* at maxConsecutiveFailures.
C3_FailureCounting ==
    /\ [](InLoop => stats.consecutiveFailures < MaxConsecutiveFailures)
    /\ [][/\ emptyStreak' = emptyStreak + 1 =>
                /\ stats'.consecutiveFailures = stats.consecutiveFailures + 1
                /\ pc' = IF stats'.consecutiveFailures >= MaxConsecutiveFailures
                         THEN "exit" ELSE "retryDelay"
                /\ fetchCalls' = fetchCalls
          /\ sumSaved' > sumSaved => stats'.consecutiveFailures = 0]_vars

C3_Witness ==
    /\ pc = "exit"
    /\ Failure(lastCall)
    /\ emptyStreak = MaxConsecutiveFailures
    /\ stats.consecutiveFailures = MaxConsecutiveFailures
    /\ stats.batchesCompleted = 0

\* C4: an exception of the fetch or of the save never leaves
\* startRecursiveFetching: it adds one to consecutiveFailures, the session
\* settles with final stats, and these report success = false when the
\* failure budget is exhausted.
C4_ExceptionsAreCounted ==
    /\ [](/\ ~thrown
          /\ returned.kind # "error"
          /\ (Settled /\ BudgetExhausted(returned.stats)) => ~returned.success)
    /\ [][Failure(lastCall') =>
              /\ stats'.consecutiveFailures = stats.consecutiveFailures + 1
              /\ pc' \in {"exit", "retryDelay"}
              /\ isRunning']_vars

C4_Witness ==
    /\ pc = "exit"
    /\ isRunning
    /\ lastCall.op = "saveThrew"
    /\ BudgetExhausted(stats)
    /\ ~thrown
    /\ stats.totalSaved > 0

\* C5: a start request that arrives while a session is running is rejected
\* and changes neither isRunning, shouldStop, the counters nor the position
\* and the locals of the running session.
C5_SecondStartRejected ==
    [][(lastCall'.op = "start" /\ isRunning) =>
           /\ lastCall'.verdict = "alreadyRunning"
           /\ UNCHANGED <<ctrl, pc, session, batchToFetch, questions, thrown,
                          returned, history>>]_vars

C5_Witness ==
    /\ lastCall.verdict = "alreadyRunning"
    /\ isRunning
    /\ pc = "saving"
    /\ stats.totalSaved > 0

\* C6: stop() leaves the call in flight alone; the save that returns after a
\* stop() still adds its result to the totals; no fetch is issued after a
\* stop(); and the stopped session settles with finalSaved equal to the sum
\* of everything its saves reported.
C6_StopKeepsInFlightBatch ==
    /\ [](/\ ~fetchAfterStop
          /\ (Settled /\ stopRequested) => returned.finalSaved = sumSaved)
    /\ [][/\ lastCall'.op = "stop" =>
                UNCHANGED <<pc, stats, session, batchToFetch, questions>>
          /\ (stopRequested /\ lastCall'.op = "saveReturned") =>
                /\ stats'.totalSaved - stats.totalSaved = sumSaved' - sumSaved
                /\ stats'.totalFetched = stats.totalFetched + questions
                /\ pc' = "exit"]_vars

C6_Witness ==
    /\ Settled
    /\ stopRequested
    /\ sessionSaved < targetCount
    /\ returned.finalSaved > 0
    /\ fetchCalls = 1

\* C7 as stated, for a session with a positive target: a session during
\* which stop() was called reports success = false.
C7_StopMeansFailure ==
    (Settled /\ stopRequested /\ targetCount > 0) => ~returned.success

\* C7 as amended: a session during which stop() was called reports
\* success = false exactly when it ended with fewer than targetCount
\* questions saved.
C7_StopBelowTargetMeansFailure ==
    (Settled /\ stopRequested) =>
        (~returned.success <=> returned.finalSaved < returned.targetCount)

C7_Witness ==
    /\ Settled
    /\ stopRequested
    /\ returned.finalSaved < returned.targetCount
    /\ returned.stats.totalFetched >= returned.targetCount
    /\ ~returned.success

\* C8: however the session ended, finalSaved is the sum of result.saved over
\* the saves that returned during it, and success holds exactly when
\* finalSaved >= targetCount.
C8_FinalStatsKeepProgress ==
    Settled =>
        /\ returned.finalSaved = sumSaved
        /\ returned.targetCount = targetCount
        /\ returned.success <=> (sumSaved >= targetCount)

C8_Witness ==
    /\ Settled
    /\ ~returned.success
    /\ BudgetExhausted(returned.stats)
    /\ returned.finalSaved > 0
    /\ returned.stats.totalDuplicates > 0

\* C9: a start request with targetCount above maxTotalQuestions is rejected,
\* issues no fetch and leaves isRunning, shouldStop and the counters as they
\* were.
C9_CeilingRejected ==
    [][(lastCall'.op = "start" /\ lastCall'.target > MaxTotalQuestions) =>
           /\ Rejected(lastCall')
           /\ UNCHANGED <<ctrl, pc, session, batchToFetch, questions,
                          returned, history>>]_vars

C9_Witness ==
    /\ lastCall.verdict = "exceedsMaximum"
    /\ lastCall.target > MaxTotalQuestions
    /\ ~isRunning
    /\ stats.totalSaved > 0

\* C10: a start request that supplies a batchSize which is not one of the
\* allowed sizes is rejected and changes no state.
C10_BadBatchSizeRejected ==
    [][(/\ lastCall'.op = "start"
        /\ lastCall'.batch # NullBatchSize
        /\ lastCall'.batch \notin BatchSizes) =>
           /\ Rejected(lastCall')
           /\ UNCHANGED <<ctrl, pc, session, batchToFetch, questions,
                          returned, history>>]_vars

\* C11: a start request with a targetCount of 0 or less is rejected: it
\* changes no session state, and no result with success = true is returned
\* for it.
C11_NonPositiveTargetRejected ==
    [][(lastCall'.op = "start" /\ lastCall'.target <= 0) =>
           /\ Rejected(lastCall')
           /\ UNCHANGED <<ctrl, pc, session, batchToFetch, questions,
                          returned, history>>]_vars

\* ------------------------------------------------- properties of the store
\* the call of caller c has returned counts
ReturnedCounts(c) ==
    saveCall[c].pc = "done" /\ saveCall[c].result.kind = "counts"
\* the collection as it was when it held n records (records are only added)
CorpusAt(n) == SubSeq(db, 1, n)
\* no record of the collection is a duplicate of the candidate q with topic
NoDuplicateIn(records, q) ==
    /\ ~FindByHash(records, GenerateQuestionHash(q))
    /\ ~IsSimilar(records, q)
\* two calls, the second started after the first had returned, neither met a
\* transport error
Successive(c1, c2) ==
    /\ c1 # c2
    /\ ReturnedCounts(c1)
    /\ ReturnedCounts(c2)
    /\ c1 \in saveCall[c2].startedAfter
    /\ saveCall[c1].transportErrors = 0
    /\ saveCall[c2].transportErrors = 0
\* the two calls carry the same single valid candidate for the same topic,
\* and the corpus had no duplicate of it when the first call started
SameCandidateTwice(c1, c2) ==
    /\ Successive(c1, c2)
    /\ saveCall[c1].topic = saveCall[c2].topic
    /\ Len(saveCall[c1].newQuestions) = 1
    /\ saveCall[c2].newQuestions = saveCall[c1].newQuestions
    /\ Valid(saveCall[c1].newQuestions[1])
    /\ NoDuplicateIn(CorpusAt(saveCall[c1].dbAtStart),
                     saveCall[c1].newQuestions[1])

\* C12: when the same valid candidate is saved into the same topic by two
\* successive calls, the first returns saved = 1 and duplicates = 0, the
\* second returns saved = 0 and duplicates = 1, leaves the corpus as it was
\* and reports the total that the first call reported.
C12_SameCandidateTwice ==
    \A c1, c2 \in SaveCallers :
        SameCandidateTwice(c1, c2) =>
            /\ saveCall[c1].result.saved = 1
            /\ saveCall[c1].result.duplicates = 0
            /\ saveCall[c2].result.saved = 0
            /\ saveCall[c2].result.duplicates = 1
            /\ saveCall[c2].dbAtEnd = saveCall[c2].dbAtStart
            /\ saveCall[c2].result.total = saveCall[c1].result.total
            /\ saveCall[c1].result.total =
                   CountDocuments(db, saveCall[c1].topic)

C12_Witness ==
    \E c1, c2 \in SaveCallers :
        /\ SameCandidateTwice(c1, c2)
        /\ saveCall[c2].detection = <<"exact">>
        /\ saveCall[c2].result.duplicates = 1
        /\ Len(db) = 1

\* the records of one topic
TopicCorpus(records, topic) ==
    SelectSeq(records, LAMBDA r : r.topic = topic)
\* The first call persisted its single candidate under its topic; the second
\* call, started after the first had returned, carries a single valid
\* candidate with the identical question text for another topic, whose
\* corpus had no duplicate of it.
SameTextOtherTopic(c1, c2) ==
    /\ Successive(c1, c2)
    /\ saveCall[c1].topic # saveCall[c2].topic
    /\ Len(saveCall[c1].newQuestions) = 1
    /\ Len(saveCall[c2].newQuestions) = 1
    /\ saveCall[c1].result.saved = 1
    /\ saveCall[c2].newQuestions[1].question =
           saveCall[c1].newQuestions[1].question
    /\ Valid(saveCall[c2].newQuestions[1])
    /\ NoDuplicateIn(TopicCorpus(CorpusAt(saveCall[c2].dbAtStart),
                                 saveCall[c2].topic),
                     saveCall[c2].newQuestions[1])

\* C13: a candidate with the question text of a record of topic A, saved
\* under another topic B whose corpus has no duplicate of it, is stored with
\* saved = 1 and duplicates = 0 whether or not the answers are identical too.
C13_OtherTopicAlwaysSaved ==
    \A c1, c2 \in SaveCallers :
        SameTextOtherTopic(c1, c2) =>
            /\ saveCall[c2].result.saved = 1
            /\ saveCall[c2].result.duplicates = 0

\* the hash under which the write loop looks a candidate up and creates its
\* record: the one it carries, or the generated one when it carries none
WrittenHash(q) ==
    IF q.hash = NoHash THEN GenerateQuestionHash(q) ELSE q.hash

\* C13, amended: such a candidate is stored with saved = 1 and duplicates = 0
\* exactly when no record of any topic has its hash, that is when its answer
\* differs as well; otherwise the call returns saved = 0 and duplicates = 1.
\* Detection rejects it in neither case.
C13_OtherTopicSavedUnlessSameHash ==
    \A c1, c2 \in SaveCallers :
        SameTextOtherTopic(c1, c2) =>
            LET q == saveCall[c2].newQuestions[1]
                taken == FindByHash(CorpusAt(saveCall[c2].dbAtStart),
                                    WrittenHash(q))
            IN /\ saveCall[c2].detection = <<"unique">>
               /\ saveCall[c2].result.saved = (IF taken THEN 0 ELSE 1)
               /\ saveCall[c2].result.duplicates = (IF taken THEN 1 ELSE 0)

C13_Witness ==
    \E c1, c2 \in SaveCallers :
        /\ SameTextOtherTopic(c1, c2)
        /\ saveCall[c2].newQuestions[1].answer #
               saveCall[c1].newQuestions[1].answer
        /\ saveCall[c2].result.saved = 1
        /\ Len(db) = 2

\* C14: in every reachable state of the store, whatever the interleaving of
\* the save calls, no two persisted records have the same hash.
C14_HashUnique ==
    \A m, n \in DOMAIN db : db[m].hash = db[n].hash => m = n

\* two calls for the same topic raced for the same hash: both passed the
\* pre-insert lookup, one of them inserted and the other was refused by the
\* index
C14_Witness ==
    \E c1, c2 \in SaveCallers :
        /\ c1 # c2
        /\ saveCall[c1].topic = saveCall[c2].topic
        /\ saveCall[c1].pc = "describe"
        /\ saveCall[c2].outcome = <<"written">>
        /\ saveCall[c1].uniqueQuestions[saveCall[c1].k].hash =
               saveCall[c2].savedQuestions[1].hash
        /\ Len(db) = 1

\* the calls of c1 and c2 overlapped: neither had returned when the other
\* started; both are over and neither met a transport error
Concurrent(c1, c2) ==
    /\ c1 # c2
    /\ saveCall[c1].pc = "done"
    /\ saveCall[c2].pc = "done"
    /\ c1 \notin saveCall[c2].startedAfter
    /\ c2 \notin saveCall[c1].startedAfter
    /\ saveCall[c1].transportErrors = 0
    /\ saveCall[c2].transportErrors = 0
\* both calls carry the same single valid candidate, and no record had its
\* hash or was similar to it when either call started
SameCandidateRace(c1, c2) ==
    /\ Concurrent(c1, c2)
    /\ Len(saveCall[c1].newQuestions) = 1
    /\ Len(saveCall[c2].newQuestions) = 1
    /\ saveCall[c1].newQuestions[1].question =
           saveCall[c2].newQuestions[1].question
    /\ saveCall[c1].newQuestions[1].answer =
           saveCall[c2].newQuestions[1].answer
    /\ Valid(saveCall[c1].newQuestions[1])
    /\ \A c \in {c1, c2} :
           NoDuplicateIn(CorpusAt(saveCall[c].dbAtStart),
                         saveCall[c].newQuestions[1])

FuzzyStep(c) ==
    /\ saveCall[c].pc = "fuzzy"
    /\ Len(saveCall'[c].detection) = Len(saveCall[c].detection) + 1
\* a record of the topic of q has the question text
InTopic(q, text) ==
    \E n \in DOMAIN db : db[n].topic = q.topic /\ db[n].question = text
\* the only question text among the records of the topic of q is text
OnlyInTopic(q, text) ==
    /\ InTopic(q, text)
    /\ \A n \in DOMAIN db : db[n].topic = q.topic => db[n].question = text

\* C16: a candidate with no exact hash match is rejected as a fuzzy duplicate
\* exactly when some record of its topic has a question text whose similarity
\* with the candidate's is strictly greater than 0.85 (similarity being
\* (L - d) / L for the edit distance d and the length L of the longer text):
\* the text at similarity 0.9 is rejected, those at 0.85 and 0.8 are accepted.
C16_FuzzyThreshold ==
    [][\A c \in SaveCallers :
           FuzzyStep(c) =>
               LET q == saveCall[c].newQuestions[saveCall[c].i]
                   verdict == saveCall'[c].detection[saveCall[c].i]
                   Distance(text) ==
                       IF Len(q.question) > Len(text)
                       THEN LevenshteinDistance(q.question, text)
                       ELSE LevenshteinDistance(text, q.question)
                   Longer(text) ==
                       IF Len(q.question) > Len(text)
                       THEN Len(q.question) ELSE Len(text)
               IN /\ verdict \in {"fuzzy", "unique"}
                  /\ verdict = "fuzzy" <=>
                         \E n \in DOMAIN db :
                             /\ db[n].topic = q.topic
                             /\ 100 * (Longer(db[n].question)
                                          - Distance(db[n].question))
                                    > 85 * Longer(db[n].question)
                  /\ (q.question = Near90Text /\ InTopic(q, BaseText))
                         => verdict = "fuzzy"
                  /\ (q.question = Near85Text /\ OnlyInTopic(q, BaseText))
                         => verdict = "unique"
                  /\ (q.question = Near80Text /\ OnlyInTopic(q, BaseText))
                         => verdict = "unique"]_vars

\* the candidate at similarity 0.85 with the only record of its topic has
\* been through the fuzzy check and was accepted
C16_Witness ==
    \E c1, c2 \in SaveCallers :
        /\ saveCall[c1].newQuestions # <<>>
        /\ saveCall[c2].newQuestions # <<>>
        /\ saveCall[c1].topic = saveCall[c2].topic
        /\ saveCall[c1].newQuestions[1].question = BaseText
        /\ saveCall[c1].outcome = <<"written">>
        /\ saveCall[c2].newQuestions[1].question = Near85Text
        /\ saveCall[c2].dbAtStart = 1
        /\ saveCall[c2].detection = <<"unique">>
        /\ LevenshteinDistance(BaseText, Near85Text) * 100 = 15 * Len(BaseText)

\* the step adds the verdict of detection for a candidate of caller c
DetectionStep(c) ==
    /\ saveCall[c].pc \in {"exact", "fuzzy"}
    /\ Len(saveCall'[c].detection) = Len(saveCall[c].detection) + 1

\* C17: the fuzzy check compares lower-cased texts: a candidate whose
\* question text differs only in letter case from the text of a record of
\* its topic is rejected as a duplicate at detection, whatever its answer.
C17_CaseInsensitiveFuzzyCheck ==
    [][\A c \in SaveCallers :
           DetectionStep(c) =>
               LET q == saveCall[c].newQuestions[saveCall[c].i]
                   verdict == saveCall'[c].detection[saveCall[c].i]
               IN (\E n \in DOMAIN db :
                       /\ db[n].topic = q.topic
                       /\ ToLowerCase(db[n].question) =
                              ToLowerCase(q.question))
                      => verdict \in {"exact", "fuzzy"}]_vars

\* the number of positions of a sequence that hold one of the values
CountOf(seq, values) == Cardinality({n \in DOMAIN seq : seq[n] \in values})

\* C18: for every save call that returns counts, saved is the number of
\* records the call wrote, duplicates is the number of candidates rejected at
\* detection (exact or fuzzy) plus the number refused at write time for a
\* hash that was taken, and nothing else, and total is the number of records
\* of the topic after the call.
C18_ReturnCounts ==
    \A c \in SaveCallers :
        ReturnedCounts(c) =>
            /\ saveCall[c].result.saved =
                   CountOf(saveCall[c].outcome, {"written"})
            /\ saveCall[c].result.duplicates =
                   CountOf(saveCall[c].detection, {"exact", "fuzzy"})
                       + CountOf(saveCall[c].outcome, {"conflict"})
            /\ saveCall[c].result.total =
                   CountDocuments(CorpusAt(saveCall[c].dbAtEnd),
                                  saveCall[c].topic)

\* C19: a save call in which a store operation (the connection, a duplicate
\* lookup or an insert) failed with a transport error fails with an error to
\* its caller and returns no counts.
C19_TransportErrorsSurface ==
    \A c \in SaveCallers :
        (saveCall[c].pc = "done" /\ saveCall[c].transportErrors > 0) =>
            saveCall[c].result.kind = "error"

\* C20: a hash-uniqueness conflict on one candidate of a call skips only that
\* candidate.  When the call returns counts, every candidate that passed
\* detection has been through the write loop; each one is either written or
\* has a cause of its own: a record with its hash is in the corpus, it is
\* invalid, or one of its store operations met a transport error.
C20_ConflictSkipsOneCandidate ==
    \A c \in SaveCallers :
        ReturnedCounts(c) =>
            LET call == saveCall[c] IN
            \A k \in DOMAIN call.uniqueQuestions :
                /\ k \in DOMAIN call.outcome
                /\ call.outcome[k] \in
                       {"written", "conflict", "invalid", "transport"}
                /\ call.outcome[k] = "written" =>
                       \E n \in DOMAIN db :
                           db[n] = Document(call.uniqueQuestions[k])
                /\ call.outcome[k] = "conflict" =>
                       FindByHash(db, call.uniqueQuestions[k].hash)
                /\ call.outcome[k] = "invalid" =>
                       ~Valid(call.uniqueQuestions[k])
                /\ call.outcome[k] = "transport" =>
                       call.transportErrors > 0

\* the first candidate met a conflict and the second was written
C20_Witness ==
    \E c \in SaveCallers :
        /\ ReturnedCounts(c)
        /\ saveCall[c].outcome = <<"conflict", "written">>
        /\ saveCall[c].result.saved = 1
        /\ saveCall[c].result.duplicates = 1
        /\ saveCall[c].transportErrors = 0

\* ------------------------------------------------------- the completion API
\* the attempts of the request so far, and the waits
Attempts == SelectSeq(request.log, LAMBDA e : e.event = "attempt")
Waits == SelectSeq(request.log, LAMBDA e : e.event = "wait")
AllAttemptsFailed ==
    /\ request.pc = "done"
    /\ Len(Attempts) = RetryAttempts
    /\ \A n \in 1..Len(Attempts) : Attempts[n].outcome \in AttemptFailures

\* C21: when every retry attempt has failed, fetchQuestions delivers an empty
\* list of questions and does not raise.
C21_ExhaustedRetriesDeliverEmpty ==
    AllAttemptsFailed => request.result = Returns(<<>>)

ContentParsed ==
    /\ request.pc = "done"
    /\ request.response.class \notin {"none", "noChoices"}
ContentParsedAs(classes) == ContentParsed /\ request.response.class \in classes
\* the members that a candidate takes over from its object
Carried == {"question", "answer", "options", "tags", "example"}
\* the candidates are the given objects, one each, in their order
CandidatesOf(objects) ==
    /\ Len(request.result.questions) = Len(objects)
    /\ \A n \in 1..Len(objects) : \A key \in Carried :
           request.result.questions[n][key] = Get(objects[n], key)

\* C23 (as stated): parseQuestions never raises, and an empty string, text
\* without JSON and a truncated JSON array all give the empty sequence.
C23_MalformedGivesEmpty ==
    /\ ContentParsed => request.result.kind = "returned"
    /\ ContentParsedAs({"empty", "garbage", "truncated"}) =>
           request.result.questions = <<>>

\* C23 (amended): parseQuestions never raises; an empty string and text
\* without JSON give the empty sequence; a truncated array gives the
\* candidates of the objects that are complete before the last closing
\* bracket left in the text, and the empty sequence when there is none.
C23_MalformedGivesWhatIsComplete ==
    /\ ContentParsed => request.result.kind = "returned"
    /\ ContentParsedAs({"empty", "garbage"}) => request.result.questions = <<>>
    /\ ContentParsedAs({"truncated"}) => CandidatesOf(request.response.objects)
\* a truncated array with a complete object in it has been parsed
C23_Witness ==
    /\ ContentParsedAs({"truncated"})
    /\ request.response.objects # <<>>
    /\ request.result.kind = "returned"

\* C24: from a valid JSON array of well-formed objects embedded in prose the
\* parser yields one candidate per object, in order, with question, answer,
\* options, tags and example unchanged.
C24_WellFormedRoundTrip ==
    ContentParsedAs({"wellFormed"}) =>
        /\ request.result.kind = "returned"
        /\ CandidatesOf(request.response.objects)

\* C25: the candidates of one parseQuestions call have pairwise distinct
\* ids.
C25_DistinctIds ==
    ContentParsed =>
        \A n, m \in 1..Len(request.result.questions) :
            n # m => request.result.questions[n].id
                         # request.result.questions[m].id

\* C26: every candidate has a difficulty in easy, medium, hard.
Difficulties == {<<"easy">>, <<"medium">>, <<"hard">>}
C26_DifficultyInRange ==
    ContentParsed =>
        \A n \in 1..Len(request.result.questions) :
            /\ request.result.questions[n].difficulty.type = "string"
            /\ request.result.questions[n].difficulty.value \in Difficulties

\* ---------------------------------------------------- similarity on its own
\* the edit distance of two texts, by its recursive definition
RECURSIVE EditDistance(_, _)
EditDistance(a, b) ==
    IF a = <<>> THEN Len(b)
    ELSE IF b = <<>> THEN Len(a)
    ELSE IF Head(a) = Head(b) THEN EditDistance(Tail(a), Tail(b))
    ELSE 1 + Min3(EditDistance(Tail(a), b), EditDistance(a, Tail(b)),
                  EditDistance(Tail(a), Tail(b)))
Longest(a, b) == IF Len(a) > Len(b) THEN Len(a) ELSE Len(b)

\* C27: calculateSimilarity(a, a) = 1, also for two empty texts; it is
\* symmetric; it equals 1 - editDistance(a, b) / max(|a|, |b|); it lies in
\* [0, 1].
C27_SimilarityLaws ==
    similarity.called =>
        LET a == similarity.str1
            b == similarity.str2
            sim == similarity.result
        IN /\ sim.den > 0
           /\ a = b => sim.num = sim.den
           /\ sim.num * similarity.swapped.den
                  = similarity.swapped.num * sim.den
           /\ Longest(a, b) > 0 =>
                  sim.num * Longest(a, b)
                      = (Longest(a, b) - EditDistance(a, b)) * sim.den
           /\ 0 <= sim.num
           /\ sim.num <= sim.den
\* two different texts of different lengths, the shorter one first, that are
\* neither equal nor entirely different
C27_Witness ==
    /\ similarity.called
    /\ 0 < Len(similarity.str1)
    /\ Len(similarity.str1) < Len(similarity.str2)
    /\ 0 < similarity.result.num
    /\ similarity.result.num < similarity.result.den

\* --------------------------------------------------------------- the backups
\* a backup file holds the given candidates
BackedUp(candidates) ==
    \E f \in files : LoadQuestionsFromFile(f.name) = Objects(candidates)

\* C28: whenever a batch is being inserted, by the recursive loop or by the
\* single fetch, a backup file with those questions has been written.
C28_BackupBeforeInsertion ==
    /\ pc = "saving" => files # {}
    /\ single.pc = "saving" => BackedUp(single.questions)

\* C29: in the single fetch, when the save to the database has failed, loading
\* the backup file returns exactly the fetched questions.
C29_BackupSurvivesFailedSave ==
    single.pc = "restored" => single.loaded = Objects(single.questions)

\* ------------------------------------------------- the session without end
\* C30: every started session ends: whenever isRunning is true it is false
\* again later, whatever the source and the store return, provided their
\* promises and the timers settle.
C30_EverySessionEnds == isRunning ~> ~isRunning

\* ------------------------------------------------------ the size of a request
\* C31: every fetch of a session asks for min(batchSize, targetCount -
\* sessionSaved) candidates, and that number is at least 1 and at most
\* batchSize.
C31_RequestSize ==
    pc = "fetching" =>
        /\ batchToFetch = Min(batchSize, targetCount - sessionSaved)
        /\ 1 <= batchToFetch
        /\ batchToFetch <= batchSize

\* a fetch, later in a session, that asks for less than a whole batch because
\* less than a batch is left to save
C31_Witness ==
    /\ pc = "fetching"
    /\ sessionSaved > 0
    /\ batchToFetch = targetCount - sessionSaved
    /\ batchToFetch < batchSize

\* --------------------------------------------- a source that keeps to the size
\* `Math.round((saved / targetCount) * 100)` for a positive target
Percent(saved, target) == (200 * saved + target) \div (2 * target)

\* the steps of the controller when fetchQuestions never resolves with more
\* candidates than it was asked for
WithinNext ==
    \/ \E t \in TargetCounts, b \in BatchSizeArgs : Start(t, b)
    \/ Stop
    \/ \E n \in 0..batchToFetch : FetchReturns(n)
    \/ FetchThrows
    \/ \E r \in SaveResults(questions) : SaveReturns(r)
    \/ SaveThrows
    \/ RetryDelayDone
    \/ BatchDelayDone
    \/ Settle

WithinSpec == Init /\ [][WithinNext]_vars

\* C32: when no fetch returns more candidates than were requested, totalSaved
\* never exceeds targetCount, during the session and in its final stats, and
\* the progress reported to onProgress and by getFinalStats never exceeds 100.
C32_NeverPastTarget ==
    /\ sessionSaved <= targetCount
    /\ stats.totalSaved <= targetCount
    /\ returned.kind = "stats" => returned.finalSaved <= returned.targetCount
    /\ targetCount > 0 =>
           /\ Percent(sessionSaved, targetCount) <= 100
           /\ Percent(stats.totalSaved, targetCount) <= 100

\* a session that reached its target exactly, with a progress of 100, although
\* some batch was short or not saved whole
C32_Witness ==
    /\ Settled
    /\ ~allFull
    /\ returned.targetCount > 0
    /\ returned.finalSaved = returned.targetCount
    /\ Percent(returned.finalSaved, returned.targetCount) = 100

\* ------------------------------------------------- every candidate is counted
\* C33: every save call that returns counts gives saved + duplicates = the
\* number of candidates it was passed; and so in every state of a session
\* totalFetched = totalSaved + totalDuplicates.
C33_EveryCandidateCounted ==
    /\ \A c \in SaveCallers :
           ReturnedCounts(c) =>
               saveCall[c].result.saved + saveCall[c].result.duplicates
                   = Len(saveCall[c].newQuestions)
    /\ stats.totalFetched = stats.totalSaved + stats.totalDuplicates

\* a call that returned after writing one candidate and rejecting the other
\* at detection
C33_Witness ==
    \E c \in SaveCallers :
        /\ ReturnedCounts(c)
        /\ saveCall[c].result.saved > 0
        /\ CountOf(saveCall[c].detection, {"exact", "fuzzy"}) > 0

\* ------------------------------------------------- the delays between fetches
\* the step issues a fetch
IssuesFetch == pc # "fetching" /\ pc' = "fetching"
\* the step ends a batch that returned no candidate or raised an exception
EndsInFailure ==
    \/ Failure(lastCall')
    \/ lastCall'.op = "fetchReturned" /\ questions' = 0

\* C34: a fetch that is not the first of its session is issued only when a
\* delay resolves: the delay between batches after a batch that returned
\* candidates and was saved, the retry delay after an empty batch or an
\* exception.  A batch is never followed directly by the next fetch, and the
\* batch that reaches the target is followed by no delay.
C34_DelayBetweenFetches ==
    [][/\ (IssuesFetch /\ lastCall'.op # "start") =>
              pc \in {"batchDelay", "retryDelay"}
       /\ (pc # "batchDelay" /\ pc' = "batchDelay") =>
              /\ pc = "saving"
              /\ questions > 0
              /\ lastCall'.op = "saveReturned"
              /\ sessionSaved' < targetCount
       /\ (pc # "retryDelay" /\ pc' = "retryDelay") =>
              /\ pc \in {"fetching", "saving"}
              /\ EndsInFailure
       /\ lastCall'.op = "saveReturned" => pc' \in {"batchDelay", "exit"}
       /\ EndsInFailure => pc' \in {"retryDelay", "exit"}
       /\ (lastCall'.op = "saveReturned" /\ sessionSaved' >= targetCount) =>
              pc' = "exit"]_vars

\* a fetch issued after a retry delay, in a session that had a batch saved,
\* and so a delay between batches, before
C34_Witness ==
    /\ pc = "fetching"
    /\ fetchCalls >= 3
    /\ stats.batchesCompleted >= 1
    /\ emptyStreak >= 1

\* ------------------------------------------------------ one session after another
\* the arguments of the start request pass the checks on the target count and
\* on the batch size
ValidStart(call) ==
    /\ call.op = "start"
    /\ call.target <= MaxTotalQuestions
    /\ EffectiveBatchSize(call.batch) \in BatchSizes

\* C35: when startRecursiveFetching has settled, with final stats or with an
\* error, isRunning is false; a start with valid arguments that comes then is
\* accepted and begins with every counter at zero and shouldStop false,
\* whatever stop() did to the flag during the last session or since.
C35_RestartAfterSettle ==
    /\ [](pc = "idle" => ~isRunning)
    /\ [][/\ lastCall'.op = "settle" =>
                 /\ returned'.kind \in {"stats", "error"}
                 /\ ~isRunning'
          /\ (lastCall'.op = "stop" /\ ~isRunning) => UNCHANGED shouldStop
          /\ (ValidStart(lastCall') /\ ~isRunning) =>
                 /\ lastCall'.verdict = "accepted"
                 /\ isRunning'
                 /\ ~shouldStop'
                 /\ stats' = NewStats(TRUE)
                 /\ sessionSaved' = 0
                 /\ returned' = NoReturn]_vars

\* a session has settled with questions saved after stop() was called during
\* it: the flag is still set and the counters are not zero when the next
\* start comes
C35_Witness ==
    /\ Settled
    /\ ~isRunning
    /\ shouldStop
    /\ stopRequested
    /\ stats.totalSaved > 0
    /\ lastCall.op = "stop"

\* ------------------------------------------------------ the persisted corpus
\* one writer: no two save calls overlap, each starts after the other has
\* returned or failed
OneWriter ==
    \A c, d \in SaveCallers :
        c # d =>
            \/ saveCall[c].pc = "idle"
            \/ saveCall[d].pc = "idle"
            \/ c \in saveCall[d].startedAfter
            \/ d \in saveCall[c].startedAfter

\* the records m and n of the collection are of one topic and their question
\* texts are more than 0.85 similar
TooSimilar(m, n) ==
    /\ db[m].topic = db[n].topic
    /\ ExceedsThreshold(CalculateSimilarity(db[m].question, db[n].question))

\* C36: under one writer no two persisted records of a topic have question
\* texts more than 0.85 similar, the two candidates of one save call included.
C36_NoSimilarRecords ==
    OneWriter =>
        \A m, n \in DOMAIN db : m < n => ~TooSimilar(m, n)

\* C37: the hash of every persisted record is the digest of its own question
\* text and answer, lower-cased and trimmed, also when the candidate came to
\* saveQuestions with a hash field.
C37_HashOfOwnContent ==
    \A n \in DOMAIN db : db[n].hash = GenerateQuestionHash(db[n])

\* ------------------------------------------------- the connection in use
\* C38: while a call of the factory saveQuestions has store operations
\* outstanding, the connection of mongoose is open, whatever the calls of
\* other callers do, and no operation of a call is refused for want of a
\* connection.
C38_ConnectionKeptWhileInUse ==
    \A c \in SaveCallers :
        /\ factoryCall[c].pc = "operating" =>
               mongoConnection.readyState = "connected"
        /\ ~factoryCall[c].refused

\* ------------------------------------------------------ the tool and the store
\* C39: for every question and every corpus, checkDuplicates and
\* saveQuestions give the same verdict, duplicate or unique.
C39_SameVerdict ==
    duplicateCheck.called => duplicateCheck.tool = duplicateCheck.save
====
